---- MODULE Spec2Model ----
(***************************************************************************)
(* axkeystore: the envelope-encryption key hierarchy (master password ->   *)
(* LMK / DEK -> secret records) over a GitHub-backed blob store.           *)
(*                                                                         *)
(* Cryptography is modelled symbolically.  Argon2id is an injective        *)
(* function of (password, salt); XChaCha20-Poly1305 is an ideal AEAD: a    *)
(* sealed box opens exactly under the key, nonce and associated data it    *)
(* was sealed with, and any bit flip breaks its tag.  Text encodings       *)
(* (base64, SaltString, JSON) are values that carry the bytes they encode  *)
(* and a well-formedness flag; decoding a malformed text fails.            *)
(***************************************************************************)
EXTENDS Integers, Sequences, FiniteSets, TLC

VARIABLES
  config_file,   \* the profile's config.json
  token_file,    \* the profile's github_token.json
  github,        \* the storage repository on GitHub
  rp,            \* the reset-password command in progress, and the last one run
  last,          \* the outcome of the last finished command
  cx             \* the cipher primitive on its own

vars == <<config_file, token_file, github, rp, last, cx>>
sysvars == <<config_file, token_file, github, rp, last>>

(***************************************************************************)
(* Results and options (anyhow::Result, Option).                           *)
(***************************************************************************)
Ok(v) == [ok |-> TRUE, val |-> v]
Err(e) == [ok |-> FALSE, err |-> e]
NoneV == [some |-> FALSE]
Some(v) == [some |-> TRUE, val |-> v]

(***************************************************************************)
(* Byte strings: str::as_bytes and String::from_utf8.                      *)
(***************************************************************************)
AsBytes(s) == [utf8 |-> TRUE, s |-> s]
RawBytes(s) == [utf8 |-> FALSE, s |-> s]
FromUtf8(b) == IF b.utf8 THEN Ok(b.s) ELSE Err("not valid UTF-8")

(***************************************************************************)
(* crypto.rs                                                               *)
(***************************************************************************)
NonceLen == 24
KeyLen == 32
Argon2OutputLen == 32

\* The random source: NumSalts salt values and NumNonceBytes fill bytes.
NumSalts == 2
NumNonceBytes == 2
Rnd == [salt : 1..NumSalts, nonce : 1..NumNonceBytes]

\* BASE64.encode / BASE64.decode (STANDARD engine).  `nl` says that the
\* text holds line breaks, which the STANDARD engine does not accept.
B64Encode(bytes) == [wf |-> TRUE, nl |-> FALSE, bytes |-> bytes]
B64Decode(text) == IF text.wf /\ ~text.nl THEN Ok(text.bytes) ELSE Err("base64")
\* str::replace('\n', "")
RemoveNewlines(text) == [text EXCEPT !.nl = FALSE]

\* SaltString::generate(&mut OsRng) and SaltString::from_b64.
SaltGenerate(r) == [wf |-> TRUE, bytes |-> r]
SaltFromB64(text) == IF text.wf THEN Ok(text) ELSE Err("Invalid salt")

\* OsRng.fill_bytes(&mut nonce_bytes) on a [u8; 24].
FillBytes(r) == [i \in 1..NonceLen |-> r]

\* Argon2::default().hash_password(password, salt): the hash output.
Argon2Hash(password, salt) == [pw |-> password, salt |-> salt.bytes, len |-> Argon2OutputLen]

derive_key(password, salt) ==
  LET s == SaltFromB64(salt) IN
  IF ~s.ok THEN Err("Invalid salt")
  ELSE LET hash == Argon2Hash(password, s.val) IN
       IF hash.len < KeyLen THEN Err("Derived key too short")
       ELSE Ok([pw |-> hash.pw, salt |-> hash.salt])

\* XChaCha20Poly1305 encrypt / decrypt of a Payload {msg, aad}.
EmptyAad == <<>>
AeadSeal(key, nonce, msg, aad) ==
  [key |-> key, nonce |-> nonce, msg |-> msg, aad |-> aad, intact |-> TRUE]
AeadOpen(key, nonce, ct, aad) ==
  IF ct.intact /\ ct.key = key /\ ct.nonce = nonce /\ ct.aad = aad
  THEN Ok(ct.msg) ELSE Err("aead::Error")

\* encrypt that leaves the nonce array as it was initialised, all zero.
encrypt_zero_nonce(data, password, r) ==
  LET seal(salt, key, nonce_bytes) ==
        IF ~key.ok THEN key
        ELSE Ok([salt |-> salt,
                 nonce |-> B64Encode(nonce_bytes),
                 ciphertext |-> B64Encode(AeadSeal(key.val, nonce_bytes, data, EmptyAad))])
  IN seal(SaltGenerate(r.salt), derive_key(password, SaltGenerate(r.salt)),
          [i \in 1..NonceLen |-> 0])

encrypt(data, password, r) ==
  LET seal(salt, key, nonce_bytes) ==
        IF ~key.ok THEN key
        ELSE Ok([salt |-> salt,
                 nonce |-> B64Encode(nonce_bytes),
                 ciphertext |-> B64Encode(AeadSeal(key.val, nonce_bytes, data, EmptyAad))])
  IN seal(SaltGenerate(r.salt), derive_key(password, SaltGenerate(r.salt)),
          FillBytes(r.nonce))

DecryptionFailed == "Decryption failed - wrong password?"

\* decrypt with the nonce checked against the 12 bytes of a ChaCha20 nonce.
decrypt_nonce12(blob, password) ==
  LET open(key, nonce_bytes, ciphertext) ==
        IF ~key.ok THEN key
        ELSE IF ~nonce_bytes.ok THEN Err("Invalid nonce base64")
        ELSE IF Len(nonce_bytes.val) # 12 THEN Err("Invalid nonce length")
        ELSE IF ~ciphertext.ok THEN Err("Invalid ciphertext base64")
        ELSE LET plaintext == AeadOpen(key.val, nonce_bytes.val, ciphertext.val, EmptyAad)
             IN IF ~plaintext.ok THEN Err(DecryptionFailed) ELSE Ok(plaintext.val)
  IN open(derive_key(password, blob.salt), B64Decode(blob.nonce),
          B64Decode(blob.ciphertext))

\* decrypt returning the message without the authenticated decryption's
\* verdict.
decrypt_unchecked(blob, password) ==
  LET open(key, nonce_bytes, ciphertext) ==
        IF ~key.ok THEN key
        ELSE IF ~nonce_bytes.ok THEN Err("Invalid nonce base64")
        ELSE IF Len(nonce_bytes.val) # NonceLen THEN Err("Invalid nonce length")
        ELSE IF ~ciphertext.ok THEN Err("Invalid ciphertext base64")
        ELSE Ok(ciphertext.val.msg)
  IN open(derive_key(password, blob.salt), B64Decode(blob.nonce),
          B64Decode(blob.ciphertext))

\* The bindings of the code (let key = ..; let nonce_bytes = ..) are the
\* parameters of a local operator, applied to the expressions they are bound
\* to; an argument is evaluated when the body first reads it.
decrypt(blob, password) ==
  LET open(key, nonce_bytes, ciphertext) ==
        IF ~key.ok THEN key
        ELSE IF ~nonce_bytes.ok THEN Err("Invalid nonce base64")
        ELSE IF Len(nonce_bytes.val) # NonceLen THEN Err("Invalid nonce length")
        ELSE IF ~ciphertext.ok THEN Err("Invalid ciphertext base64")
        ELSE LET plaintext == AeadOpen(key.val, nonce_bytes.val, ciphertext.val, EmptyAad)
             IN IF ~plaintext.ok THEN Err(DecryptionFailed) ELSE Ok(plaintext.val)
  IN open(derive_key(password, blob.salt), B64Decode(blob.nonce),
          B64Decode(blob.ciphertext))

(***************************************************************************)
(* Inputs of the commands.                                                 *)
(***************************************************************************)
Passwords == {"password-1", "password-2"}
Lines == Passwords \cup {"short"}      \* what may be typed at a password prompt
MinPasswordLen == 8
LmkValues == {"lmk-1"}                 \* key material drawn for a new LMK
MasterKeys == {"mk-A", "mk-B"}         \* outcomes of generate_master_key
Tokens == {"gho_1"}
RepoNames == {"vault"}
Keys == {"db-pass"}
Values == {"v1", "v2"}
\* The random source as the commands see it: which salt and nonce are drawn
\* plays no part in what a command does, so one of each is drawn.
SysRnd == [salt : {1}, nonce : {1}]

(***************************************************************************)
(* The network.  A request is answered by GitHub, or fails in transport    *)
(* before it reaches GitHub, or is answered 500 without effect.  `net`     *)
(* names the request of a command that fails, if any.                      *)
(***************************************************************************)
NoFailure == [site |-> "none", kind |-> "none"]
Failures(sites) == {NoFailure} \cup [site : sites, kind : {"transport", "status"}]
Transport(net, site) == net.site = site /\ net.kind = "transport"
Status500(net, site) == net.site = site /\ net.kind = "status"
IsSuccess(status) == status \in 200..299

(***************************************************************************)
(* GitHub: the repository-contents API of one repository.  A file is held  *)
(* as the base64 text that was put and its blob sha (a hash of the         *)
(* content).  A write to an existing path must name the path's sha.  Each   *)
(* accepted write is a commit; a commit's sha is its place in the log.     *)
(* `commits` is NoneV where the log is not followed: the commands of Spec  *)
(* never read it.                                                          *)
(***************************************************************************)
MasterKeyPath == ".axkeystore/master_key.json"
KeyPaths == {"keys/" \o k \o ".json" : k \in Keys}
Paths == {MasterKeyPath} \cup KeyPaths
BlobSha(content) == [sha_of |-> content]
GithubFile(content) == Some([content |-> content, sha |-> BlobSha(content)])

NoRepository ==
  [exists |-> FALSE, files |-> [p \in Paths |-> NoneV], commits |-> NoneV]
GhCommit(gh, path, file, message) ==
  IF gh.commits.some
  THEN Some(Append(gh.commits.val, [path |-> path, file |-> file, message |-> message]))
  ELSE NoneV

GhGetRepo(gh) == IF gh.exists THEN [status |-> 200] ELSE [status |-> 404]
GhCreateRepo(gh) ==
  IF gh.exists THEN [status |-> 422, gh |-> gh]
  ELSE [status |-> 201, gh |-> [gh EXCEPT !.exists = TRUE]]
\* GET contents: the content comes back as base64 broken into lines.
GhGetContents(gh, path) ==
  IF gh.exists /\ gh.files[path].some
  THEN [status |-> 200,
        content |-> [gh.files[path].val.content EXCEPT !.nl = TRUE],
        sha |-> gh.files[path].val.sha]
  ELSE [status |-> 404]
GhWrite(gh, path, file, message) ==
  [gh EXCEPT !.files[path] = file, !.commits = GhCommit(gh, path, file, message)]
GhPutContents(gh, path, content, sha, message) ==
  IF ~gh.exists THEN [status |-> 404, gh |-> gh]
  ELSE IF gh.files[path].some
  THEN IF ~sha.some THEN [status |-> 422, gh |-> gh]
       ELSE IF sha.val # gh.files[path].val.sha THEN [status |-> 409, gh |-> gh]
       ELSE [status |-> 200, gh |-> GhWrite(gh, path, GithubFile(content), message)]
  ELSE IF sha.some THEN [status |-> 422, gh |-> gh]
       ELSE [status |-> 201, gh |-> GhWrite(gh, path, GithubFile(content), message)]
GhDeleteContents(gh, path, sha, message) ==
  IF ~(gh.exists /\ gh.files[path].some) THEN [status |-> 404, gh |-> gh]
  ELSE IF sha # gh.files[path].val.sha THEN [status |-> 409, gh |-> gh]
  ELSE [status |-> 200, gh |-> GhWrite(gh, path, NoneV, message)]

\* The commits that touch a path, newest first, as the shas of the commits.
RECURSIVE NewestFirst(_)
NewestFirst(shas) ==
  IF shas = {} THEN <<>>
  ELSE LET head(newest) == <<newest>> \o NewestFirst(shas \ {newest})
       IN head(CHOOSE sha \in shas : \A other \in shas : other <= sha)
CommitsOf(log, path, upto) ==
  NewestFirst({sha \in 1..upto : sha <= Len(log) /\ log[sha].path = path})
\* Page `page` of a list cut into pages of `per_page`.
GhPage(all, page, per_page) ==
  LET cut(from, upto) ==
        IF upto <= from THEN <<>> ELSE [i \in 1..(upto - from) |-> all[from + i]]
  IN cut((page - 1) * per_page,
         IF Len(all) < page * per_page THEN Len(all) ELSE page * per_page)
\* GET commits?path=..&page=..&per_page=..
GhListCommits(gh, path, page, per_page) ==
  IF ~gh.exists THEN [status |-> 404]
  ELSE LET listed(shas) ==
             [status |-> 200,
              commits |-> [i \in 1..Len(shas) |->
                            [sha |-> shas[i], date |-> shas[i],
                             message |-> gh.commits.val[shas[i]].message]]]
       IN listed(GhPage(CommitsOf(gh.commits.val, path, Len(gh.commits.val)),
                        page, per_page))
\* GET contents/{path}?ref={sha}: the file as the commit `ref` left it.
GhGetContentsAt(gh, path, ref) ==
  IF ~gh.exists \/ ref \notin 1..Len(gh.commits.val) THEN [status |-> 404]
  ELSE LET at(touching) ==
             IF touching = <<>> THEN [status |-> 404]
             ELSE IF ~gh.commits.val[touching[1]].file.some THEN [status |-> 404]
             ELSE [status |-> 200,
                   content |-> [gh.commits.val[touching[1]].file.val.content
                                  EXCEPT !.nl = TRUE]]
       IN at(CommitsOf(gh.commits.val, path, ref))

(***************************************************************************)
(* serde_json of an EncryptedBlob.                                         *)
(***************************************************************************)
ToJsonVec(blob) == [json |-> TRUE, doc |-> blob]
FromJsonSlice(bytes) == IF bytes.json THEN Ok(bytes.doc) ELSE Err("json")

(***************************************************************************)
(* config.rs                                                               *)
(***************************************************************************)
DefaultConfig == [encrypted_lmk |-> NoneV, encrypted_repo_name |-> NoneV]

\* A file that exists and does not parse as JSON, and serde_json::from_str.
MalformedJson == [malformed |-> TRUE]
FromJsonStr(content) == IF content = MalformedJson THEN Err("json") ELSE Ok(content)

\* No file gives the default, and so does a file that does not parse
\* (unwrap_or_default).
load_with_profile(file) ==
  IF ~file.some THEN DefaultConfig
  ELSE IF ~FromJsonStr(file.val).ok THEN DefaultConfig
  ELSE FromJsonStr(file.val).val

save_with_profile(config) == Some(config)

get_repo_name_with_profile(file, password) ==
  LET name(config) ==
        IF config.encrypted_repo_name.some
        THEN LET opened(decrypted) ==
                   IF ~decrypted.ok
                   THEN Err("Incorrect master password or corrupted local configuration.")
                   ELSE FromUtf8(decrypted.val)
             IN opened(decrypt(config.encrypted_repo_name.val, password))
        ELSE Err("Repository not configured")
  IN name(load_with_profile(file))

\* set_repo_name_with_profile that keeps a repository name already set.
set_repo_name_with_profile_keep(file, name, password, r) ==
  LET set(config, encrypted) ==
        IF ~encrypted.ok THEN [res |-> encrypted, file |-> file]
        ELSE IF config.encrypted_repo_name.some
        THEN [res |-> Ok("done"), file |-> save_with_profile(config)]
        ELSE [res |-> Ok("done"),
              file |-> save_with_profile(
                         [config EXCEPT !.encrypted_repo_name = Some(encrypted.val)])]
  IN set(load_with_profile(file), encrypt(AsBytes(name), password, r))

set_repo_name_with_profile(file, name, password, r) ==
  LET set(config, encrypted) ==
        IF ~encrypted.ok THEN [res |-> encrypted, file |-> file]
        ELSE [res |-> Ok("done"),
              file |-> save_with_profile(
                         [config EXCEPT !.encrypted_repo_name = Some(encrypted.val)])]
  IN set(load_with_profile(file), encrypt(AsBytes(name), password, r))

\* Bootstrap that generates a new LMK when the password does not open the
\* LMK record.
get_or_create_lmk_with_profile_regenerate(file, password, new_lmk, r) ==
  LET lmk(config, opens) ==
        IF opens
        THEN [res |-> FromUtf8(decrypt(config.encrypted_lmk.val, password).val),
              file |-> file]
        ELSE LET created(encrypted) ==
                   IF ~encrypted.ok THEN [res |-> encrypted, file |-> file]
                   ELSE [res |-> Ok(new_lmk),
                         file |-> save_with_profile(
                                    [config EXCEPT !.encrypted_lmk = Some(encrypted.val)])]
             IN created(encrypt(AsBytes(new_lmk), password, r))
  IN lmk(load_with_profile(file),
         /\ load_with_profile(file).encrypted_lmk.some
         /\ decrypt(load_with_profile(file).encrypted_lmk.val, password).ok)

\* Credential Vault Bootstrap: open the profile's LMK record with the
\* password, or create the LMK when the profile has none.
get_or_create_lmk_with_profile(file, password, new_lmk, r) ==
  LET lmk(config) ==
        IF config.encrypted_lmk.some
        THEN LET opened(decrypted) ==
                   IF ~decrypted.ok THEN [res |-> Err("IncorrectPassword"), file |-> file]
                   ELSE [res |-> FromUtf8(decrypted.val), file |-> file]
             IN opened(decrypt(config.encrypted_lmk.val, password))
        ELSE LET created(encrypted) ==
                   IF ~encrypted.ok THEN [res |-> encrypted, file |-> file]
                   ELSE [res |-> Ok(new_lmk),
                         file |-> save_with_profile(
                                    [config EXCEPT !.encrypted_lmk = Some(encrypted.val)])]
             IN created(encrypt(AsBytes(new_lmk), password, r))
  IN lmk(load_with_profile(file))

(***************************************************************************)
(* auth.rs                                                                 *)
(***************************************************************************)
save_token_to_path(token, key, r) ==
  LET write(encrypted) ==
        IF ~encrypted.ok THEN [res |-> encrypted, written |-> NoneV]
        ELSE [res |-> Ok("done"), written |-> Some(encrypted.val)]
  IN write(encrypt(AsBytes(token), key, r))

\* save_token_with_profile that wraps the token with the password.
save_token_with_profile_direct(file, tok, token, password, new_lmk, r1, r2) ==
  LET save(lmk) ==
        IF ~lmk.res.ok THEN [res |-> lmk.res, file |-> lmk.file, tok |-> tok]
        ELSE LET done(saved) ==
                   [res |-> saved.res, file |-> lmk.file,
                    tok |-> IF saved.res.ok THEN saved.written ELSE tok]
             IN done(save_token_to_path(token, password, r2))
  IN save(get_or_create_lmk_with_profile(file, password, new_lmk, r1))

save_token_with_profile(file, tok, token, password, new_lmk, r1, r2) ==
  LET save(lmk) ==
        IF ~lmk.res.ok THEN [res |-> lmk.res, file |-> lmk.file, tok |-> tok]
        ELSE LET done(saved) ==
                   [res |-> saved.res, file |-> lmk.file,
                    tok |-> IF saved.res.ok THEN saved.written ELSE tok]
             IN done(save_token_to_path(token, lmk.res.val, r2))
  IN save(get_or_create_lmk_with_profile(file, password, new_lmk, r1))

get_saved_token_with_profile(file, tok, password, new_lmk, r) ==
  LET read(lmk) ==
        IF ~lmk.res.ok THEN [res |-> lmk.res, file |-> lmk.file]
        ELSE IF ~tok.some THEN [res |-> Err("Not logged in"), file |-> lmk.file]
        ELSE LET opened(decrypted) ==
                   IF ~decrypted.ok
                   THEN [res |-> Err("Incorrect master password or corrupted local master key."),
                         file |-> lmk.file]
                   ELSE [res |-> FromUtf8(decrypted.val), file |-> lmk.file]
             IN opened(decrypt(tok.val, lmk.res.val))
  IN read(get_or_create_lmk_with_profile(file, password, new_lmk, r))

is_logged_in_with_profile(tok) == tok.some

(***************************************************************************)
(* storage.rs.  Each operation returns its result, GitHub's state after    *)
(* it, and (for writes) the number of write requests it sent.              *)
(***************************************************************************)
new_with_profile(file, tok, repo, password, new_lmk, r, net) ==
  LET connect(token) ==
        IF ~token.res.ok THEN [res |-> token.res, file |-> token.file]
        ELSE IF Transport(net, "user") THEN [res |-> Err("transport"), file |-> token.file]
        ELSE IF Status500(net, "user")
        THEN [res |-> Err("Failed to get user info. Check if token is valid."),
              file |-> token.file]
        ELSE [res |-> Ok([token |-> token.res.val, owner |-> "owner", repo |-> repo]),
              file |-> token.file]
  IN connect(get_saved_token_with_profile(file, tok, password, new_lmk, r))

\* init_repo that sends the create request whatever the check answered.
init_repo_always_create(gh, net) ==
  IF Transport(net, "repo_get")
  THEN [res |-> Err("transport"), gh |-> gh, check |-> 0, creates |-> 0]
  ELSE LET checked(res) ==
             IF Transport(net, "repo_create")
             THEN [res |-> Err("transport"), gh |-> gh,
                   check |-> res.status, creates |-> 1]
             ELSE LET created(create_res) ==
                        IF ~IsSuccess(create_res.status)
                        THEN [res |-> Err("Failed to create repo"), gh |-> gh,
                              check |-> res.status, creates |-> 1]
                        ELSE [res |-> Ok("done"), gh |-> create_res.gh,
                              check |-> res.status, creates |-> 1]
                  IN created(IF Status500(net, "repo_create")
                             THEN [status |-> 500, gh |-> gh]
                             ELSE GhCreateRepo(gh))
       IN checked(IF Status500(net, "repo_get") THEN [status |-> 500]
                  ELSE GhGetRepo(gh))

\* `check` is the status the existence check answered (0 when the request
\* failed in transport) and `creates` the number of create requests sent.
init_repo(gh, net) ==
  IF Transport(net, "repo_get")
  THEN [res |-> Err("transport"), gh |-> gh, check |-> 0, creates |-> 0]
  ELSE LET checked(res) ==
             IF res.status = 404
             THEN IF Transport(net, "repo_create")
                  THEN [res |-> Err("transport"), gh |-> gh,
                        check |-> res.status, creates |-> 1]
                  ELSE LET created(create_res) ==
                             IF ~IsSuccess(create_res.status)
                             THEN [res |-> Err("Failed to create repo"), gh |-> gh,
                                   check |-> res.status, creates |-> 1]
                             ELSE [res |-> Ok("done"), gh |-> create_res.gh,
                                   check |-> res.status, creates |-> 1]
                       IN created(IF Status500(net, "repo_create")
                                  THEN [status |-> 500, gh |-> gh]
                                  ELSE GhCreateRepo(gh))
             ELSE IF IsSuccess(res.status)
             THEN [res |-> Ok("done"), gh |-> gh, check |-> res.status, creates |-> 0]
             ELSE [res |-> Err("Error checking repo"), gh |-> gh,
                   check |-> res.status, creates |-> 0]
       IN checked(IF Status500(net, "repo_get") THEN [status |-> 500]
                  ELSE GhGetRepo(gh))

\* Keys are well-formed names and no category is given.
build_key_path(key) == Ok("keys/" \o key \o ".json")

get_master_key_blob(gh, net) ==
  IF Transport(net, "mk_get") THEN Err("transport")
  ELSE LET answered(res) ==
             IF res.status = 404 THEN Ok(NoneV)
             ELSE IF ~IsSuccess(res.status) THEN Err("Failed to fetch master key")
             ELSE LET decoded == B64Decode(RemoveNewlines(res.content))
                  IN IF ~decoded.ok
                     THEN Err("Failed to decode base64 master key from GitHub")
                     ELSE Ok(Some(decoded.val))
       IN answered(IF Status500(net, "mk_get") THEN [status |-> 500]
                   ELSE GhGetContents(gh, MasterKeyPath))

save_master_key_blob(gh, data, net) ==
  IF Transport(net, "mk_sha") THEN [res |-> Err("transport"), gh |-> gh, puts |-> 0]
  ELSE LET write(res) ==
             IF Transport(net, "mk_put")
             THEN [res |-> Err("transport"), gh |-> gh, puts |-> 1]
             ELSE LET sent(put) ==
                        IF ~IsSuccess(put.status)
                        THEN [res |-> Err("Failed to save master key"), gh |-> gh, puts |-> 1]
                        ELSE [res |-> Ok("done"), gh |-> put.gh, puts |-> 1]
                  IN sent(IF Status500(net, "mk_put") THEN [status |-> 500, gh |-> gh]
                          ELSE GhPutContents(gh, MasterKeyPath, B64Encode(data),
                                 IF IsSuccess(res.status) THEN Some(res.sha) ELSE NoneV,
                                 "Initialize master key"))
       IN write(IF Status500(net, "mk_sha") THEN [status |-> 500]
                ELSE GhGetContents(gh, MasterKeyPath))

\* get_blob that takes the answer 404 for a failure like any other.
get_blob_no_404(gh, key, net, site) ==
  LET fetch(path) ==
        IF ~path.ok THEN path
        ELSE IF Transport(net, site) THEN Err("transport")
        ELSE LET answered(res) ==
                   IF ~IsSuccess(res.status) THEN Err("Failed to fetch key")
                   ELSE LET decoded == B64Decode(RemoveNewlines(res.content))
                        IN IF ~decoded.ok
                           THEN Err("Failed to decode base64 content from GitHub")
                           ELSE Ok(Some([data |-> decoded.val, sha |-> res.sha]))
             IN answered(IF Status500(net, site) THEN [status |-> 500]
                         ELSE GhGetContents(gh, path.val))
  IN fetch(build_key_path(key))

\* `site` names the call of get_blob, so that one of several calls can fail.
get_blob(gh, key, net, site) ==
  LET fetch(path) ==
        IF ~path.ok THEN path
        ELSE IF Transport(net, site) THEN Err("transport")
        ELSE LET answered(res) ==
                   IF res.status = 404 THEN Ok(NoneV)
                   ELSE IF ~IsSuccess(res.status) THEN Err("Failed to fetch key")
                   ELSE LET decoded == B64Decode(RemoveNewlines(res.content))
                        IN IF ~decoded.ok
                           THEN Err("Failed to decode base64 content from GitHub")
                           ELSE Ok(Some([data |-> decoded.val, sha |-> res.sha]))
             IN answered(IF Status500(net, site) THEN [status |-> 500]
                         ELSE GhGetContents(gh, path.val))
  IN fetch(build_key_path(key))

\* save_blob, lines 433-437: the sha of the file as it is now, if it can be
\* read; an error of the read is not returned.
save_blob_sha(gh, key, net) ==
  LET current(found) ==
        IF found.ok /\ found.val.some THEN Some(found.val.val.sha) ELSE NoneV
  IN current(get_blob(gh, key, net, "blob_sha"))

\* save_blob_put that sends the sha the file has at the time of the PUT.
save_blob_put_overwrite(gh, key, data, sha, net) ==
  LET write(path) ==
        IF ~path.ok THEN [res |-> path, gh |-> gh, puts |-> 0]
        ELSE IF Transport(net, "blob_put")
        THEN [res |-> Err("transport"), gh |-> gh, puts |-> 1]
        ELSE LET sent(put) ==
                   IF ~IsSuccess(put.status)
                   THEN [res |-> Err("Failed to save key"), gh |-> gh, puts |-> 1]
                   ELSE [res |-> Ok("done"), gh |-> put.gh, puts |-> 1]
             IN sent(IF Status500(net, "blob_put") THEN [status |-> 500, gh |-> gh]
                     ELSE GhPutContents(gh, path.val, B64Encode(data),
                                        IF gh.files[path.val].some
                                        THEN Some(gh.files[path.val].val.sha)
                                        ELSE NoneV,
                                        "Update key: " \o key))
  IN write(build_key_path(key))

\* save_blob_put that does not look at the status of the answer.
save_blob_put_unchecked(gh, key, data, sha, net) ==
  LET write(path) ==
        IF ~path.ok THEN [res |-> path, gh |-> gh, puts |-> 0]
        ELSE IF Transport(net, "blob_put")
        THEN [res |-> Err("transport"), gh |-> gh, puts |-> 1]
        ELSE LET sent(put) == [res |-> Ok("done"), gh |-> put.gh, puts |-> 1]
             IN sent(IF Status500(net, "blob_put") THEN [status |-> 500, gh |-> gh]
                     ELSE GhPutContents(gh, path.val, B64Encode(data), sha,
                                        "Update key: " \o key))
  IN write(build_key_path(key))

\* save_blob, lines 439-467: the PUT with the sha that was read.
save_blob_put(gh, key, data, sha, net) ==
  LET write(path) ==
        IF ~path.ok THEN [res |-> path, gh |-> gh, puts |-> 0]
        ELSE IF Transport(net, "blob_put")
        THEN [res |-> Err("transport"), gh |-> gh, puts |-> 1]
        ELSE LET sent(put) ==
                   IF ~IsSuccess(put.status)
                   THEN [res |-> Err("Failed to save key"), gh |-> gh, puts |-> 1]
                   ELSE [res |-> Ok("done"), gh |-> put.gh, puts |-> 1]
             IN sent(IF Status500(net, "blob_put") THEN [status |-> 500, gh |-> gh]
                     ELSE GhPutContents(gh, path.val, B64Encode(data), sha,
                                        "Update key: " \o key))
  IN write(build_key_path(key))

save_blob(gh, key, data, net) ==
  save_blob_put(gh, key, data, save_blob_sha(gh, key, net), net)

\* delete_blob_send whose DELETE names no sha of the file.
delete_blob_send_no_sha(gh, key, found, net) ==
  LET remove(path) ==
        IF ~path.ok THEN [res |-> path, gh |-> gh, deletes |-> 0]
        ELSE IF ~found.ok THEN [res |-> found, gh |-> gh, deletes |-> 0]
        ELSE IF ~found.val.some THEN [res |-> Ok(FALSE), gh |-> gh, deletes |-> 0]
        ELSE IF Transport(net, "blob_delete")
        THEN [res |-> Err("transport"), gh |-> gh, deletes |-> 1]
        ELSE LET sent(del) ==
                   IF ~IsSuccess(del.status)
                   THEN [res |-> Err("Failed to delete key"), gh |-> gh, deletes |-> 1]
                   ELSE [res |-> Ok(TRUE), gh |-> del.gh, deletes |-> 1]
             IN sent(IF Status500(net, "blob_delete") THEN [status |-> 500, gh |-> gh]
                     ELSE GhDeleteContents(gh, path.val, BlobSha(NoneV),
                                           "Delete key: " \o key))
  IN remove(build_key_path(key))

\* delete_blob_send that does not look at the status of the answer.
delete_blob_send_unchecked(gh, key, found, net) ==
  LET remove(path) ==
        IF ~path.ok THEN [res |-> path, gh |-> gh, deletes |-> 0]
        ELSE IF ~found.ok THEN [res |-> found, gh |-> gh, deletes |-> 0]
        ELSE IF ~found.val.some THEN [res |-> Ok(FALSE), gh |-> gh, deletes |-> 0]
        ELSE IF Transport(net, "blob_delete")
        THEN [res |-> Err("transport"), gh |-> gh, deletes |-> 1]
        ELSE LET sent(del) == [res |-> Ok(TRUE), gh |-> del.gh, deletes |-> 1]
             IN sent(IF Status500(net, "blob_delete") THEN [status |-> 500, gh |-> gh]
                     ELSE GhDeleteContents(gh, path.val, found.val.val.sha,
                                           "Delete key: " \o key))
  IN remove(build_key_path(key))

\* delete_blob_send that sends its DELETE whether or not the key was found.
delete_blob_send_always(gh, key, found, net) ==
  LET remove(path) ==
        IF ~path.ok THEN [res |-> path, gh |-> gh, deletes |-> 0]
        ELSE IF ~found.ok THEN [res |-> found, gh |-> gh, deletes |-> 0]
        ELSE IF Transport(net, "blob_delete")
        THEN [res |-> Err("transport"), gh |-> gh, deletes |-> 1]
        ELSE LET sent(del) ==
                   IF ~IsSuccess(del.status)
                   THEN [res |-> Err("Failed to delete key"), gh |-> gh, deletes |-> 1]
                   ELSE [res |-> Ok(TRUE), gh |-> del.gh, deletes |-> 1]
             IN sent(IF Status500(net, "blob_delete") THEN [status |-> 500, gh |-> gh]
                     ELSE GhDeleteContents(gh, path.val,
                            IF found.val.some THEN found.val.val.sha
                            ELSE BlobSha(NoneV),
                            "Delete key: " \o key))
  IN remove(build_key_path(key))

\* delete_blob, lines 474-513: what follows the read of the file's sha.
delete_blob_send(gh, key, found, net) ==
  LET remove(path) ==
        IF ~path.ok THEN [res |-> path, gh |-> gh, deletes |-> 0]
        ELSE IF ~found.ok THEN [res |-> found, gh |-> gh, deletes |-> 0]
        ELSE IF ~found.val.some THEN [res |-> Ok(FALSE), gh |-> gh, deletes |-> 0]
        ELSE IF Transport(net, "blob_delete")
        THEN [res |-> Err("transport"), gh |-> gh, deletes |-> 1]
        ELSE LET sent(del) ==
                   IF ~IsSuccess(del.status)
                   THEN [res |-> Err("Failed to delete key"), gh |-> gh, deletes |-> 1]
                   ELSE [res |-> Ok(TRUE), gh |-> del.gh, deletes |-> 1]
             IN sent(IF Status500(net, "blob_delete") THEN [status |-> 500, gh |-> gh]
                     ELSE GhDeleteContents(gh, path.val, found.val.val.sha,
                                           "Delete key: " \o key))
  IN remove(build_key_path(key))

delete_blob(gh, key, net) ==
  delete_blob_send(gh, key, get_blob(gh, key, net, "blob_del_sha"), net)

\* get_blob_at_version reading the file as it is now, whatever the version.
get_blob_at_version_current(gh, key, sha, net) ==
  LET fetch(path) ==
        IF ~path.ok THEN path
        ELSE IF Transport(net, "blob_at") THEN Err("transport")
        ELSE LET answered(res) ==
                   IF res.status = 404 THEN Ok(NoneV)
                   ELSE IF ~IsSuccess(res.status)
                   THEN Err("Failed to fetch key at version")
                   ELSE LET decoded == B64Decode(RemoveNewlines(res.content))
                        IN IF ~decoded.ok
                           THEN Err("Failed to decode base64 content from GitHub")
                           ELSE Ok(Some(decoded.val))
             IN answered(IF Status500(net, "blob_at") THEN [status |-> 500]
                         ELSE GhGetContents(gh, path.val))
  IN fetch(build_key_path(key))

get_blob_at_version(gh, key, sha, net) ==
  LET fetch(path) ==
        IF ~path.ok THEN path
        ELSE IF Transport(net, "blob_at") THEN Err("transport")
        ELSE LET answered(res) ==
                   IF res.status = 404 THEN Ok(NoneV)
                   ELSE IF ~IsSuccess(res.status)
                   THEN Err("Failed to fetch key at version")
                   ELSE LET decoded == B64Decode(RemoveNewlines(res.content))
                        IN IF ~decoded.ok
                           THEN Err("Failed to decode base64 content from GitHub")
                           ELSE Ok(Some(decoded.val))
             IN answered(IF Status500(net, "blob_at") THEN [status |-> 500]
                         ELSE GhGetContentsAt(gh, path.val, sha))
  IN fetch(build_key_path(key))

\* get_key_history that asks for the first page whatever page is wanted.
get_key_history_first_page(gh, key, page, per_page, net) ==
  LET fetch(path) ==
        IF ~path.ok THEN path
        ELSE IF Transport(net, "commits") THEN Err("transport")
        ELSE LET answered(res) ==
                   IF ~IsSuccess(res.status) THEN Err("Failed to fetch key history")
                   ELSE Ok([i \in 1..Len(res.commits) |->
                             [sha |-> res.commits[i].sha,
                              date |-> res.commits[i].date,
                              message |-> res.commits[i].message]])
             IN answered(IF Status500(net, "commits") THEN [status |-> 500]
                         ELSE GhListCommits(gh, path.val, 1, per_page))
  IN fetch(build_key_path(key))

get_key_history(gh, key, page, per_page, net) ==
  LET fetch(path) ==
        IF ~path.ok THEN path
        ELSE IF Transport(net, "commits") THEN Err("transport")
        ELSE LET answered(res) ==
                   IF ~IsSuccess(res.status) THEN Err("Failed to fetch key history")
                   ELSE Ok([i \in 1..Len(res.commits) |->
                             [sha |-> res.commits[i].sha,
                              date |-> res.commits[i].date,
                              message |-> res.commits[i].message]])
             IN answered(IF Status500(net, "commits") THEN [status |-> 500]
                         ELSE GhListCommits(gh, path.val, page, per_page))
  IN fetch(build_key_path(key))

(***************************************************************************)
(* main.rs                                                                 *)
(***************************************************************************)
IncorrectMasterPassword == "Incorrect master password. Please verify your credentials."

\* get_or_init_master_key without the look at what the store holds: each call
\* generates a master key and saves it.
get_or_init_master_key_always_new(gh, password, new_master_key, r, net) ==
  LET created(saved) ==
        IF ~saved.res.ok THEN [res |-> saved.res, gh |-> saved.gh, puts |-> saved.puts]
        ELSE [res |-> Ok(new_master_key), gh |-> saved.gh, puts |-> saved.puts]
  IN created(save_master_key_blob(
               gh, ToJsonVec(encrypt(AsBytes(new_master_key), password, r).val), net))

\* get_or_init_master_key that answers a master key it cannot open by
\* generating a new one in its place.
get_or_init_master_key_replace(gh, password, new_master_key, r, net) ==
  LET created(saved) ==
        IF ~saved.res.ok THEN [res |-> saved.res, gh |-> saved.gh, puts |-> saved.puts]
        ELSE [res |-> Ok(new_master_key), gh |-> saved.gh, puts |-> saved.puts]
      create ==
        created(save_master_key_blob(
                  gh, ToJsonVec(encrypt(AsBytes(new_master_key), password, r).val), net))
      init(fetched) ==
        IF ~fetched.ok THEN [res |-> fetched, gh |-> gh, puts |-> 0]
        ELSE IF fetched.val.some /\ FromJsonSlice(fetched.val.val).ok
        THEN LET opened(decrypted) ==
                   IF decrypted.ok
                   THEN [res |-> FromUtf8(decrypted.val), gh |-> gh, puts |-> 0]
                   ELSE create
             IN opened(decrypt(FromJsonSlice(fetched.val.val).val, password))
        ELSE create
  IN init(get_master_key_blob(gh, net))

get_or_init_master_key(gh, password, new_master_key, r, net) ==
  LET init(fetched) ==
        IF ~fetched.ok THEN [res |-> fetched, gh |-> gh, puts |-> 0]
        ELSE IF fetched.val.some
        THEN LET parsed(encrypted) ==
                   IF ~encrypted.ok
                   THEN [res |-> Err("Failed to parse master key blob from GitHub"),
                         gh |-> gh, puts |-> 0]
                   ELSE LET opened(decrypted) ==
                              IF decrypted.ok
                              THEN [res |-> FromUtf8(decrypted.val), gh |-> gh, puts |-> 0]
                              ELSE [res |-> Err(IncorrectMasterPassword),
                                    gh |-> gh, puts |-> 0]
                        IN opened(decrypt(encrypted.val, password))
             IN parsed(FromJsonSlice(fetched.val.val))
        ELSE LET wrapped(master_key, encrypted) ==
                   IF ~encrypted.ok THEN [res |-> encrypted, gh |-> gh, puts |-> 0]
                   ELSE LET created(saved) ==
                              IF ~saved.res.ok
                              THEN [res |-> saved.res, gh |-> saved.gh, puts |-> saved.puts]
                              ELSE [res |-> Ok(master_key), gh |-> saved.gh,
                                    puts |-> saved.puts]
                        IN created(save_master_key_blob(gh, ToJsonVec(encrypted.val), net))
             IN wrapped(new_master_key, encrypt(AsBytes(new_master_key), password, r))
  IN init(get_master_key_blob(gh, net))

(***************************************************************************)
(* The commands.  A command runs from its prompt to its exit as one step,  *)
(* except reset-password, whose reads, prompt loop, remote write and local *)
(* write are steps of their own.  `last` records how the last command      *)
(* ended; `boot`, when the command called get_or_init_master_key, records  *)
(* that call: its result, the write requests it sent, how the remote       *)
(* master key stood to the password before the call, and whether the       *)
(* command then sent a request for a path under keys/.                     *)
(***************************************************************************)
HasMasterKey(gh) == gh.exists /\ gh.files[MasterKeyPath].some
StoredBlob(gh, path) == gh.files[path].val.content.bytes.doc
MkStatus(gh, pw) ==
  IF ~HasMasterKey(gh) THEN "absent"
  ELSE IF decrypt(StoredBlob(gh, MasterKeyPath), pw).ok THEN "opens" ELSE "wrong"

NoBoot == NoneV
Boot(gh, pw, b) ==
  Some([ok |-> b.res.ok,
        key |-> IF b.res.ok THEN b.res.val ELSE "",
        err |-> IF b.res.ok THEN "" ELSE b.res.err,
        puts |-> b.puts,
        kept |-> b.gh.files[MasterKeyPath] = gh.files[MasterKeyPath],
        pre |-> MkStatus(gh, pw),
        keys |-> FALSE])
\* The command went on to send a request for a path under keys/.
KeysRequested(boot) == Some([boot.val EXCEPT !.keys = TRUE])
\* `val` is what a store saved or a get printed, and `prev_stored` (of a
\* get) what the command before it saved when that was a store with the same
\* password.  For a delete that came to look the key up, `val` is whether the
\* key was found, how many DELETE requests the command sent, and whether it
\* left the files under keys/ as they were.
Deleted(key, found, deletes, gh, after) ==
  Some([key |-> key, found |-> found, deletes |-> deletes,
        keys_kept |-> \A path \in KeyPaths : after.files[path] = gh.files[path]])
OutcomeVal(cmd, pw, res, boot, val) ==
  [cmd |-> cmd, pw |-> pw, ok |-> res.ok,
   err |-> IF res.ok THEN "" ELSE res.err,
   boot |-> boot,
   prev_key |-> IF boot.some /\ last.boot.some /\ last.boot.val.ok /\ last.pw = pw
                THEN Some(last.boot.val.key) ELSE NoneV,
   val |-> val,
   prev_stored |-> IF cmd = "get" /\ last.cmd = "store" /\ last.pw = pw
                   THEN last.val ELSE NoneV]
Outcome(cmd, pw, res, boot) == OutcomeVal(cmd, pw, res, boot, NoneV)

NoCommand ==
  [cmd |-> "none", pw |-> "", ok |-> TRUE, err |-> "", boot |-> NoBoot,
   prev_key |-> NoneV, val |-> NoneV, prev_stored |-> NoneV]

RpIdle ==
  [pc |-> "idle", old |-> "", new |-> "", lmk |-> "", lmk_ok |-> FALSE,
   rmk |-> NoneV, dek |-> "none", pre |-> "none", pre_dek |-> NoneV,
   rejected_same |-> FALSE,
   wrote_remote |-> FALSE, wrote_local |-> FALSE, remote_failed |-> FALSE]

Init ==
  /\ config_file = NoneV
  /\ token_file = NoneV
  /\ github = NoRepository
  /\ rp = RpIdle
  /\ last = NoCommand
  /\ cx = [stage |-> "off"]

\* A command that ends: what it leaves on disk and on GitHub, and its outcome.
FinishVal(cmd, pw, res, boot, file, tok, gh, val) ==
  /\ config_file' = file
  /\ token_file' = tok
  /\ github' = gh
  /\ rp' = RpIdle
  /\ last' = OutcomeVal(cmd, pw, res, boot, val)
  /\ UNCHANGED cx
Finish(cmd, pw, res, boot, file, tok, gh) ==
  FinishVal(cmd, pw, res, boot, file, tok, gh, NoneV)

\* main.rs, Commands::Login.  The device flow yields a token or fails; the
\* set-password loop ends with a password of at least 8 characters typed
\* twice.
Login ==
  /\ rp.pc = "idle"
  /\ \E reauth \in BOOLEAN :
       IF is_logged_in_with_profile(token_file) /\ ~reauth
       THEN Finish("login", "", Ok("Login cancelled."), NoBoot,
                   config_file, token_file, github)
       ELSE \E auth \in {Ok(t) : t \in Tokens} \cup {Err("Authentication failed")} :
         IF ~auth.ok
         THEN Finish("login", "", auth, NoBoot, config_file, token_file, github)
         ELSE \E p \in Lines, new_lmk \in LmkValues, r1 \in SysRnd, r2 \in SysRnd :
           LET password(lmk_exists, verified) ==
                 IF lmk_exists /\ ~verified.res.ok
                 THEN Finish("login", p, Err("Incorrect master password."), NoBoot,
                             config_file, token_file, github)
                 ELSE /\ lmk_exists \/ Len(p) >= MinPasswordLen
                      /\ LET done(saved) ==
                               Finish("login", p, saved.res, NoBoot,
                                      saved.file, saved.tok, github)
                         IN done(save_token_with_profile(config_file, token_file,
                                                         auth.val, p, new_lmk, r1, r2))
           IN password(load_with_profile(config_file).encrypted_lmk.some,
                       get_or_create_lmk_with_profile(config_file, p, new_lmk, r1))

\* main.rs, Commands::Init.
\* What init_repo did in an init command: whether the repository existed,
\* the status of the existence check, the create requests sent, and whether
\* the repository exists afterwards.
InitRepo(gh, inited) ==
  Some([existed |-> gh.exists, check |-> inited.check, creates |-> inited.creates,
        ok |-> inited.res.ok, exists |-> inited.gh.exists])

\* The init command without the check of the password against the master
\* key of the repository.
InitCmd_Unverified ==
  /\ rp.pc = "idle"
  /\ \E repo \in RepoNames, password \in Passwords, new_lmk \in LmkValues,
        r1 \in SysRnd, r2 \in SysRnd,
        net \in Failures({"user", "repo_get", "repo_create", "mk_get"}) :
       LET connected(storage) ==
         IF ~storage.res.ok
         THEN Finish("init", password, storage.res, NoBoot,
                     storage.file, token_file, github)
         ELSE LET initialised(inited) ==
           IF ~inited.res.ok
           THEN FinishVal("init", password, inited.res, NoBoot,
                       storage.file, token_file, inited.gh, InitRepo(github, inited))
           ELSE LET fetched(blob) ==
             IF ~blob.ok
             THEN FinishVal("init", password, blob, NoBoot,
                         storage.file, token_file, inited.gh, InitRepo(github, inited))
             ELSE LET verified(encrypted) ==
               IF blob.val.some /\ ~encrypted.ok
               THEN FinishVal("init", password,
                           Err("Failed to parse master key blob from GitHub"), NoBoot,
                           storage.file, token_file, inited.gh, InitRepo(github, inited))
               ELSE LET done(set) ==
                          FinishVal("init", password, set.res, NoBoot,
                                 set.file, token_file, inited.gh, InitRepo(github, inited))
                    IN done(set_repo_name_with_profile(storage.file, repo, password, r2))
               IN verified(IF blob.val.some THEN FromJsonSlice(blob.val.val)
                           ELSE Err("none"))
             IN fetched(get_master_key_blob(inited.gh, net))
           IN initialised(init_repo(github, net))
       IN connected(new_with_profile(config_file, token_file, repo, password,
                                     new_lmk, r1, net))

InitCmd ==
  /\ rp.pc = "idle"
  /\ \E repo \in RepoNames, password \in Passwords, new_lmk \in LmkValues,
        r1 \in SysRnd, r2 \in SysRnd,
        net \in Failures({"user", "repo_get", "repo_create", "mk_get"}) :
       LET connected(storage) ==
         IF ~storage.res.ok
         THEN Finish("init", password, storage.res, NoBoot,
                     storage.file, token_file, github)
         ELSE LET initialised(inited) ==
           IF ~inited.res.ok
           THEN FinishVal("init", password, inited.res, NoBoot,
                       storage.file, token_file, inited.gh, InitRepo(github, inited))
           ELSE LET fetched(blob) ==
             IF ~blob.ok
             THEN FinishVal("init", password, blob, NoBoot,
                         storage.file, token_file, inited.gh, InitRepo(github, inited))
             ELSE LET verified(encrypted) ==
               IF blob.val.some /\ ~encrypted.ok
               THEN FinishVal("init", password,
                           Err("Failed to parse master key blob from GitHub"), NoBoot,
                           storage.file, token_file, inited.gh, InitRepo(github, inited))
               ELSE IF blob.val.some /\ ~decrypt(encrypted.val, password).ok
               THEN FinishVal("init", password,
                           Err("The provided password is incorrect for this repository."),
                           NoBoot, storage.file, token_file, inited.gh,
                           InitRepo(github, inited))
               ELSE LET done(set) ==
                          FinishVal("init", password, set.res, NoBoot,
                                 set.file, token_file, inited.gh, InitRepo(github, inited))
                    IN done(set_repo_name_with_profile(storage.file, repo, password, r2))
               IN verified(IF blob.val.some THEN FromJsonSlice(blob.val.val)
                           ELSE Err("none"))
             IN fetched(get_master_key_blob(inited.gh, net))
           IN initialised(init_repo(github, net))
       IN connected(new_with_profile(config_file, token_file, repo, password,
                                     new_lmk, r1, net))

\* Store that encrypts the value under the master password.
Store_UnderPassword ==
  /\ rp.pc = "idle"
  /\ \E key \in Keys, password \in Passwords, new_lmk \in LmkValues, r1 \in SysRnd,
        net \in Failures({"user", "mk_get", "mk_sha", "mk_put",
                          "blob_get", "blob_sha", "blob_put"}) :
       LET configured(repo_name) ==
         IF ~repo_name.ok
         THEN Finish("store", password, repo_name, NoBoot, config_file, token_file, github)
         ELSE LET connected(storage) ==
           IF ~storage.res.ok
           THEN Finish("store", password, storage.res, NoBoot,
                       storage.file, token_file, github)
           ELSE \E new_master_key \in MasterKeys :
             LET keyed(master_key, boot) ==
               IF ~master_key.res.ok
               THEN Finish("store", password, master_key.res, boot,
                           storage.file, token_file, master_key.gh)
               ELSE \E should_update \in BOOLEAN :
                 LET looked(found) ==
                   IF found.ok /\ found.val.some /\ ~should_update
                   THEN Finish("store", password, Ok("Update cancelled."), KeysRequested(boot),
                               storage.file, token_file, master_key.gh)
                   ELSE \E value \in [given : BOOLEAN, v : Values, confirmed : BOOLEAN] :
                     IF ~value.given /\ ~value.confirmed
                     THEN Finish("store", password, Ok("Operation cancelled."), KeysRequested(boot),
                                 storage.file, token_file, master_key.gh)
                     ELSE \E r2 \in SysRnd :
                       LET sealed(encrypted) ==
                         IF ~encrypted.ok
                         THEN Finish("store", password, encrypted, KeysRequested(boot),
                                     storage.file, token_file, master_key.gh)
                         ELSE LET done(saved) ==
                                    FinishVal("store", password, saved.res, KeysRequested(boot),
                                              storage.file, token_file, saved.gh,
                                              IF saved.res.ok
                                              THEN Some([key |-> key, value |-> value.v])
                                              ELSE NoneV)
                              IN done(save_blob(master_key.gh, key,
                                                ToJsonVec(encrypted.val), net))
                       IN sealed(encrypt(AsBytes(value.v), password, r2))
                 IN looked(get_blob(master_key.gh, key, net, "blob_get"))
             IN keyed(get_or_init_master_key(github, password, new_master_key, r1, net),
                      Boot(github, password,
                           get_or_init_master_key(github, password, new_master_key,
                                                  r1, net)))
         IN connected(new_with_profile(config_file, token_file, repo_name.val,
                                       password, new_lmk, r1, net))
       IN configured(get_repo_name_with_profile(config_file, password))

\* main.rs, Commands::Store.
Store ==
  /\ rp.pc = "idle"
  /\ \E key \in Keys, password \in Passwords, new_lmk \in LmkValues, r1 \in SysRnd,
        net \in Failures({"user", "mk_get", "mk_sha", "mk_put",
                          "blob_get", "blob_sha", "blob_put"}) :
       LET configured(repo_name) ==
         IF ~repo_name.ok
         THEN Finish("store", password, repo_name, NoBoot, config_file, token_file, github)
         ELSE LET connected(storage) ==
           IF ~storage.res.ok
           THEN Finish("store", password, storage.res, NoBoot,
                       storage.file, token_file, github)
           ELSE \E new_master_key \in MasterKeys :
             LET keyed(master_key, boot) ==
               IF ~master_key.res.ok
               THEN Finish("store", password, master_key.res, boot,
                           storage.file, token_file, master_key.gh)
               ELSE \E should_update \in BOOLEAN :
                 LET looked(found) ==
                   IF found.ok /\ found.val.some /\ ~should_update
                   THEN Finish("store", password, Ok("Update cancelled."), KeysRequested(boot),
                               storage.file, token_file, master_key.gh)
                   ELSE \E value \in [given : BOOLEAN, v : Values, confirmed : BOOLEAN] :
                     IF ~value.given /\ ~value.confirmed
                     THEN Finish("store", password, Ok("Operation cancelled."), KeysRequested(boot),
                                 storage.file, token_file, master_key.gh)
                     ELSE \E r2 \in SysRnd :
                       LET sealed(encrypted) ==
                         IF ~encrypted.ok
                         THEN Finish("store", password, encrypted, KeysRequested(boot),
                                     storage.file, token_file, master_key.gh)
                         ELSE LET done(saved) ==
                                    FinishVal("store", password, saved.res, KeysRequested(boot),
                                              storage.file, token_file, saved.gh,
                                              IF saved.res.ok
                                              THEN Some([key |-> key, value |-> value.v])
                                              ELSE NoneV)
                              IN done(save_blob(master_key.gh, key,
                                                ToJsonVec(encrypted.val), net))
                       IN sealed(encrypt(AsBytes(value.v), master_key.res.val, r2))
                 IN looked(get_blob(master_key.gh, key, net, "blob_get"))
             IN keyed(get_or_init_master_key(github, password, new_master_key, r1, net),
                      Boot(github, password,
                           get_or_init_master_key(github, password, new_master_key,
                                                  r1, net)))
         IN connected(new_with_profile(config_file, token_file, repo_name.val,
                                       password, new_lmk, r1, net))
       IN configured(get_repo_name_with_profile(config_file, password))

\* main.rs, Commands::Get (the current version).
Get ==
  /\ rp.pc = "idle"
  /\ \E key \in Keys, password \in Passwords, new_lmk \in LmkValues, r1 \in SysRnd,
        net \in Failures({"user", "mk_get", "mk_sha", "mk_put", "blob_get"}) :
       LET configured(repo_name) ==
         IF ~repo_name.ok
         THEN Finish("get", password, repo_name, NoBoot, config_file, token_file, github)
         ELSE LET connected(storage) ==
           IF ~storage.res.ok
           THEN Finish("get", password, storage.res, NoBoot,
                       storage.file, token_file, github)
           ELSE \E new_master_key \in MasterKeys :
             LET keyed(master_key, boot) ==
               IF ~master_key.res.ok
               THEN Finish("get", password, master_key.res, boot,
                           storage.file, token_file, master_key.gh)
               ELSE LET fetched(data) ==
                 IF ~data.ok
                 THEN Finish("get", password, data, KeysRequested(boot),
                             storage.file, token_file, master_key.gh)
                 ELSE IF ~data.val.some
                 THEN Finish("get", password, Err("Key not found."), KeysRequested(boot),
                             storage.file, token_file, master_key.gh)
                 ELSE LET parsed(encrypted) ==
                   IF ~encrypted.ok
                   THEN Finish("get", password, encrypted, KeysRequested(boot),
                               storage.file, token_file, master_key.gh)
                   ELSE LET opened(decrypted) ==
                          FinishVal("get", password,
                                    IF decrypted.ok THEN FromUtf8(decrypted.val)
                                    ELSE decrypted,
                                    KeysRequested(boot), storage.file, token_file, master_key.gh,
                                    IF decrypted.ok /\ FromUtf8(decrypted.val).ok
                                    THEN Some([key |-> key,
                                               value |-> FromUtf8(decrypted.val).val])
                                    ELSE NoneV)
                        IN opened(decrypt(encrypted.val, master_key.res.val))
                   IN parsed(FromJsonSlice(data.val.val.data))
               IN fetched(get_blob(master_key.gh, key, net, "blob_get"))
             IN keyed(get_or_init_master_key(github, password, new_master_key, r1, net),
                      Boot(github, password,
                           get_or_init_master_key(github, password, new_master_key,
                                                  r1, net)))
         IN connected(new_with_profile(config_file, token_file, repo_name.val,
                                       password, new_lmk, r1, net))
       IN configured(get_repo_name_with_profile(config_file, password))

\* main.rs, Commands::Delete.
Delete ==
  /\ rp.pc = "idle"
  /\ \E key \in Keys, password \in Passwords, new_lmk \in LmkValues, r1 \in SysRnd,
        net \in Failures({"user", "mk_get", "mk_sha", "mk_put",
                          "blob_get", "blob_del_sha", "blob_delete"}) :
       LET configured(repo_name) ==
         IF ~repo_name.ok
         THEN Finish("delete", password, repo_name, NoBoot, config_file, token_file, github)
         ELSE LET connected(storage) ==
           IF ~storage.res.ok
           THEN Finish("delete", password, storage.res, NoBoot,
                       storage.file, token_file, github)
           ELSE \E new_master_key \in MasterKeys :
             LET keyed(master_key, boot) ==
               IF ~master_key.res.ok
               THEN Finish("delete", password, master_key.res, boot,
                           storage.file, token_file, master_key.gh)
               ELSE LET looked(found) ==
                 IF ~found.ok
                 THEN Finish("delete", password, found, KeysRequested(boot),
                             storage.file, token_file, master_key.gh)
                 ELSE IF ~found.val.some
                 THEN FinishVal("delete", password, Err("Key not found."), KeysRequested(boot),
                                storage.file, token_file, master_key.gh,
                                Deleted(key, FALSE, 0, github, master_key.gh))
                 ELSE \E should_delete \in BOOLEAN :
                   IF ~should_delete
                   THEN FinishVal("delete", password, Ok("Deletion cancelled."),
                                  KeysRequested(boot),
                                  storage.file, token_file, master_key.gh,
                                  Deleted(key, TRUE, 0, github, master_key.gh))
                   ELSE LET done(deleted) ==
                          FinishVal("delete", password,
                                    IF deleted.res.ok /\ ~deleted.res.val
                                    THEN Err("Failed to delete key.") ELSE deleted.res,
                                    KeysRequested(boot), storage.file, token_file, deleted.gh,
                                    Deleted(key, TRUE, deleted.deletes, github,
                                            deleted.gh))
                        IN done(delete_blob(master_key.gh, key, net))
               IN looked(get_blob(master_key.gh, key, net, "blob_get"))
             IN keyed(get_or_init_master_key(github, password, new_master_key, r1, net),
                      Boot(github, password,
                           get_or_init_master_key(github, password, new_master_key,
                                                  r1, net)))
         IN connected(new_with_profile(config_file, token_file, repo_name.val,
                                       password, new_lmk, r1, net))
       IN configured(get_repo_name_with_profile(config_file, password))

\* main.rs, Commands::ResetPassword, steps 1 and 2: unwrap the LMK with the
\* old password, and the remote master key when the storage can be reached.
\* `dek` records how step 2 ended, `pre` how the remote master key stood to
\* the old password before the rotation, and `pre_dek` the key
\* get_or_init_master_key returned for the old password then.
ResetUnwrap(file, tok, gh, old_password, new_lmk, r, net) ==
  LET skipped(how) == [abort |-> FALSE, rmk |-> NoneV, dek |-> how]
      aborted == [abort |-> TRUE, rmk |-> NoneV, dek |-> "unparsed"]
      configured(repo_name) ==
        IF ~repo_name.ok
        THEN skipped(IF load_with_profile(file).encrypted_repo_name.some
                     THEN "name_unreadable" ELSE "unconfigured")
        ELSE LET connected(storage) ==
          IF ~storage.res.ok THEN skipped("unreachable")
          ELSE LET fetched(data) ==
            IF ~data.ok THEN skipped("unreachable")
            ELSE IF ~data.val.some THEN skipped("absent")
            ELSE LET parsed(encrypted) ==
              IF ~encrypted.ok THEN aborted
              ELSE LET opened(decrypted) ==
                IF ~decrypted.ok THEN skipped("failed")
                ELSE LET read(rmk) ==
                           IF ~rmk.ok THEN aborted
                           ELSE [abort |-> FALSE, rmk |-> Some(rmk.val), dek |-> "ok"]
                     IN read(FromUtf8(decrypted.val))
                IN opened(decrypt(encrypted.val, old_password))
              IN parsed(FromJsonSlice(data.val.val))
            IN fetched(get_master_key_blob(gh, net))
          IN connected(new_with_profile(file, tok, repo_name.val, old_password,
                                        new_lmk, r, net))
  IN configured(get_repo_name_with_profile(file, old_password))

RP_Begin ==
  /\ rp.pc = "idle"
  /\ \E old_password \in Passwords, new_lmk \in LmkValues, r \in SysRnd,
        net \in Failures({"user", "mk_get"}) :
       LET begin(lmk, pre, pre_dek) ==
         /\ config_file' = lmk.file
         /\ UNCHANGED <<token_file, github, cx>>
         /\ IF ~lmk.res.ok
            THEN /\ rp' = [RpIdle EXCEPT !.old = old_password, !.pre_dek = pre_dek,
                             !.pre = pre]
                 /\ last' = Outcome("reset", old_password,
                                    Err("Incorrect old master password."), NoBoot)
            ELSE LET unwrapped(u) ==
                   IF u.abort
                   THEN /\ rp' = [RpIdle EXCEPT !.old = old_password,
                                    !.lmk = lmk.res.val, !.lmk_ok = TRUE,
                                    !.rmk = u.rmk, !.dek = u.dek,
                                    !.pre_dek = pre_dek, !.pre = pre]
                        /\ last' = Outcome("reset", old_password,
                                           Err("master key blob"), NoBoot)
                   ELSE /\ rp' = [RpIdle EXCEPT !.pc = "prompt", !.old = old_password,
                                    !.lmk = lmk.res.val, !.lmk_ok = TRUE,
                                    !.rmk = u.rmk, !.dek = u.dek,
                                    !.pre_dek = pre_dek, !.pre = pre]
                        /\ UNCHANGED last
                 IN unwrapped(ResetUnwrap(lmk.file, token_file, github, old_password,
                                          new_lmk, r, net))
       IN begin(get_or_create_lmk_with_profile(config_file, old_password, new_lmk, r),
                MkStatus(github, old_password),
                IF MkStatus(github, old_password) = "opens"
                THEN Some(get_or_init_master_key(github, old_password, "", r,
                                                 NoFailure).res.val)
                ELSE NoneV)

\* The prompt loop without the comparison of p1 with the old password.
RP_Prompt_AcceptSame ==
  /\ rp.pc = "prompt"
  /\ \E p1 \in Lines, p2 \in Lines :
       /\ UNCHANGED <<config_file, token_file, github, last, cx>>
       /\ IF Len(p1) < MinPasswordLen THEN UNCHANGED rp
          ELSE IF p1 = p2
          THEN rp' = [rp EXCEPT !.new = p1,
                        !.pc = IF rp.rmk.some THEN "remote" ELSE "local"]
          ELSE UNCHANGED rp

\* Step 3, one turn of the prompt loop: p1 is read, and p2 when p1 is long
\* enough.
RP_Prompt ==
  /\ rp.pc = "prompt"
  /\ \E p1 \in Lines, p2 \in Lines :
       /\ UNCHANGED <<config_file, token_file, github, last, cx>>
       /\ IF Len(p1) < MinPasswordLen THEN UNCHANGED rp
          ELSE IF p1 = p2
          THEN IF p1 = rp.old
               THEN rp' = [rp EXCEPT !.rejected_same = TRUE]
               ELSE rp' = [rp EXCEPT !.new = p1,
                             !.pc = IF rp.rmk.some THEN "remote" ELSE "local"]
          ELSE UNCHANGED rp

\* Step 3 when the prompt cannot be read: the command ends with the error.
RP_PromptFails ==
  /\ rp.pc = "prompt"
  /\ rp' = [rp EXCEPT !.pc = "idle"]
  /\ last' = Outcome("reset", rp.old, Err("Failed to read password"), NoBoot)
  /\ UNCHANGED <<config_file, token_file, github, cx>>

\* Step 4 wrapping a newly generated master key instead of the unwrapped one.
RP_Remote_NewKey ==
  /\ rp.pc = "remote"
  /\ \E r \in SysRnd, net \in Failures({"mk_sha", "mk_put"}), fresh \in MasterKeys :
       LET written(saved) ==
         /\ UNCHANGED <<config_file, token_file, cx>>
         /\ github' = saved.gh
         /\ IF ~saved.res.ok
            THEN /\ rp' = [rp EXCEPT !.pc = "idle", !.remote_failed = TRUE]
                 /\ last' = Outcome("reset", rp.old,
                                    Err("Failed to update remote master key on GitHub"),
                                    NoBoot)
            ELSE /\ rp' = [rp EXCEPT !.pc = "local", !.wrote_remote = TRUE]
                 /\ UNCHANGED last
       IN written(save_master_key_blob(
                    github, ToJsonVec(encrypt(AsBytes(fresh), rp.new, r).val), net))

\* Step 4: the remote master key is wrapped with the new password and saved.
RP_Remote ==
  /\ rp.pc = "remote"
  /\ \E r \in SysRnd, net \in Failures({"mk_sha", "mk_put"}) :
       LET written(saved) ==
         /\ UNCHANGED <<config_file, token_file, cx>>
         /\ github' = saved.gh
         /\ IF ~saved.res.ok
            THEN /\ rp' = [rp EXCEPT !.pc = "idle", !.remote_failed = TRUE]
                 /\ last' = Outcome("reset", rp.old,
                                    Err("Failed to update remote master key on GitHub"),
                                    NoBoot)
            ELSE /\ rp' = [rp EXCEPT !.pc = "local", !.wrote_remote = TRUE]
                 /\ UNCHANGED last
       IN written(save_master_key_blob(
                    github, ToJsonVec(encrypt(AsBytes(rp.rmk.val), rp.new, r).val), net))

\* Step 5: the LMK is wrapped with the new password and the config saved.
\* Writing the file can fail.
RP_Local ==
  /\ rp.pc = "local"
  /\ \E r \in SysRnd, disk_ok \in BOOLEAN :
       /\ UNCHANGED <<token_file, github, cx>>
       /\ IF disk_ok
          THEN /\ config_file' = save_with_profile(
                     [load_with_profile(config_file) EXCEPT
                        !.encrypted_lmk = Some(encrypt(AsBytes(rp.lmk), rp.new, r).val)])
               /\ rp' = [rp EXCEPT !.pc = "idle", !.wrote_local = TRUE]
               /\ last' = Outcome("reset", rp.old, Ok("done"), NoBoot)
          ELSE /\ UNCHANGED config_file
               /\ rp' = [rp EXCEPT !.pc = "idle"]
               /\ last' = Outcome("reset", rp.old, Err("io"), NoBoot)

Next ==
  \/ Login \/ InitCmd \/ Store \/ Get \/ Delete
  \/ RP_Begin \/ RP_Prompt \/ RP_PromptFails \/ RP_Remote \/ RP_Local

Spec == Init /\ [][Next]_vars

(***************************************************************************)
(* Properties of the key hierarchy.                                        *)
(***************************************************************************)
LmkOpens(file, pw) ==
  LET config == load_with_profile(file) IN
  config.encrypted_lmk.some /\ decrypt(config.encrypted_lmk.val, pw).ok
Configured(file) == load_with_profile(file).encrypted_repo_name.some
RotationEnded == last.cmd = "reset" /\ rp.pc = "idle" /\ rp.old # ""
OpenOrCreateDEK(pw) ==
  get_or_init_master_key(github, pw, "mk-A", [salt |-> 1, nonce |-> 1], NoFailure)
FetchErrors == {"transport", "Failed to fetch master key"}

\* C1: after a rotation that reported success, get_or_init_master_key with
\* the new password returns the master key it returned for the old password
\* before the rotation, and with the old password it fails.
C1_RotationPreservesDek ==
  (RotationEnded /\ last.ok /\ rp.pre_dek.some) =>
     /\ OpenOrCreateDEK(rp.new).res.ok
     /\ OpenOrCreateDEK(rp.new).res.val = rp.pre_dek.val
     /\ ~OpenOrCreateDEK(rp.old).res.ok

\* C2: every secret record in the store decrypts under the master key that
\* some password unwraps from the master key file now in the store.
C2_SecretsOpenUnderDek ==
  \A path \in KeyPaths :
    (github.exists /\ github.files[path].some) =>
       /\ HasMasterKey(github)
       /\ \E pw \in Passwords :
            LET dek == decrypt(StoredBlob(github, MasterKeyPath), pw) IN
            /\ dek.ok
            /\ decrypt(StoredBlob(github, path), FromUtf8(dek.val).val).ok

\* A secret record is in the store and a rotation has re-wrapped the master
\* key.
C2_Witness ==
  /\ \E path \in KeyPaths : github.exists /\ github.files[path].some
  /\ rp.wrote_remote /\ rp.wrote_local

\* C3: a rotation that could not unwrap the LMK with the old password, or
\* that met a remote master key the old password does not unwrap, writes
\* neither the master key file nor the LMK record.
C3_AbortsWithoutWrites ==
  (rp.old # "" /\ (~rp.lmk_ok \/ rp.pre = "wrong")) =>
     ~rp.wrote_remote /\ ~rp.wrote_local

\* C4: a rotation that met a master key file in the store writes the LMK
\* record only after its write of the master key file succeeded; when that
\* write failed the LMK record is not written, and the old password still
\* opens both the LMK record and the master key file.
C4_LocalOnlyAfterRemote ==
  /\ (rp.wrote_local /\ rp.pre # "absent") => rp.wrote_remote
  /\ rp.remote_failed =>
        /\ ~rp.wrote_local
        /\ LmkOpens(config_file, rp.old)
        /\ MkStatus(github, rp.old) = "opens"

\* C5: when a rotation reported success and the configured repository holds
\* a master key file, the new password opens the LMK record and the master
\* key file.
C5_NewPasswordOpensBoth ==
  (RotationEnded /\ last.ok /\ Configured(config_file) /\ HasMasterKey(github)) =>
     LmkOpens(config_file, rp.new) /\ MkStatus(github, rp.new) = "opens"

\* C6: a rotation reaches its writes, and makes them, only with a new
\* password different from the old one; what it wrote does not open with
\* the old password.
C6_NoWriteWithSamePassword ==
  /\ (rp.pc \in {"remote", "local"} \/ rp.wrote_remote \/ rp.wrote_local) =>
        rp.new # rp.old
  /\ (RotationEnded /\ rp.wrote_local) => ~LmkOpens(config_file, rp.old)
  /\ (rp.pc = "local" /\ rp.wrote_remote) => MkStatus(github, rp.old) = "wrong"

\* The old password was typed as the new one and turned down, and the
\* rotation went on to write.
C6_Witness == rp.rejected_same /\ rp.wrote_remote /\ rp.wrote_local

\* C7: when two commands in a row call get_or_init_master_key with the same
\* password and the first call returned a key, the second call sends no
\* write, returns that same key, and fails only if its fetch failed.
C7_BootstrapIdempotent ==
  last.prev_key.some =>
     /\ last.boot.val.puts = 0
     /\ last.boot.val.kept
     /\ last.boot.val.ok => last.boot.val.key = last.prev_key.val
     /\ ~last.boot.val.ok => last.boot.val.err \in FetchErrors

\* The second of two such calls returned a key.
C7_Witness == last.prev_key.some /\ last.boot.val.ok

\* C8: get_or_init_master_key with a password that does not open the master
\* key file in the store sends no write, leaves the file as it is, and
\* fails: with the incorrect-password error when the fetch answered.
C8_WrongPasswordNoWrite ==
  (last.boot.some /\ last.boot.val.pre = "wrong") =>
     /\ ~last.boot.val.ok
     /\ last.boot.val.puts = 0
     /\ last.boot.val.kept
     /\ last.boot.val.err \in FetchErrors \cup {IncorrectMasterPassword}

\* The call met a master key its password does not open and said so.
C8_Witness ==
  /\ last.boot.some /\ last.boot.val.pre = "wrong"
  /\ last.boot.val.err = IncorrectMasterPassword

\* C12: every file in the store is the base64 text of a JSON EncryptedBlob
\* whose ciphertext is a sealed box and no clear text; a file under keys/ is
\* sealed under a key derived from a master key, opens under that master key
\* to a secret value, and opens under no master password.
C12_OnlyCiphertextStored ==
  \A path \in Paths :
    (github.exists /\ github.files[path].some) =>
       LET content == github.files[path].val.content
           blob == StoredBlob(github, path)
           sealed == blob.ciphertext.bytes
       IN /\ content.wf /\ content.bytes.json
          /\ DOMAIN blob = {"salt", "nonce", "ciphertext"}
          /\ blob.ciphertext.wf
          /\ DOMAIN sealed = {"key", "nonce", "msg", "aad", "intact"}
          /\ sealed.intact
          /\ path \in KeyPaths =>
                /\ sealed.key.pw \in MasterKeys
                /\ sealed.key.pw \notin Passwords
                /\ decrypt(blob, sealed.key.pw).ok
                /\ FromUtf8(decrypt(blob, sealed.key.pw).val).val \in Values
                /\ \A pw \in Passwords : ~decrypt(blob, pw).ok
          /\ path = MasterKeyPath =>
                /\ sealed.key.pw \in Passwords
                /\ FromUtf8(sealed.msg).val \in MasterKeys

\* A store command has saved a secret record.
C12_Witness ==
  /\ last.cmd = "store" /\ last.ok /\ last.val.some
  /\ \E path \in KeyPaths : github.exists /\ github.files[path].some

\* The errors of a get whose requests fail on the network.
GetNetworkErrors ==
  {"transport", "Failed to get user info. Check if token is valid.",
   "Failed to fetch master key", "Failed to fetch key"}

\* C13: a get that directly follows a store command which saved a value, with
\* the same master password, prints exactly the value that was saved; it
\* fails only when one of its requests fails on the network.
C13_StoreGetRoundTrip ==
  (last.cmd = "get" /\ last.prev_stored.some) =>
     /\ last.ok => last.val = last.prev_stored
     /\ ~last.ok => last.err \in GetNetworkErrors

\* A get has printed the value the store before it saved over another value.
C13_Witness ==
  /\ last.cmd = "get" /\ last.prev_stored.some /\ last.ok
  /\ last.val = last.prev_stored /\ last.val.val.value = "v2"

\* delete_blob, answered by the store as it stands, for a key the store does
\* not hold: it returns false, sends no DELETE and leaves the store as it is.
DeleteBlobOfAbsent ==
  \A key \in Keys :
    (github.exists /\ ~github.files[build_key_path(key).val].some) =>
       delete_blob(github, key, NoFailure) =
         [res |-> Ok(FALSE), gh |-> github, deletes |-> 0]
DeleteMissedKey == last.cmd = "delete" /\ last.val.some /\ ~last.val.val.found

\* C16: a delete command for a key the store does not hold ends with "Key
\* not found." without a DELETE request and leaves the files under keys/ as
\* they were; the only request it may write with is the PUT by which its
\* get_or_init_master_key creates the master key file of a store that has
\* none.  delete_blob itself returns false for such a key, sends no DELETE
\* and leaves the store unchanged.
C16_DeleteOfAbsentKey ==
  /\ DeleteBlobOfAbsent
  /\ DeleteMissedKey =>
        /\ ~last.ok /\ last.err = "Key not found."
        /\ last.val.val.deletes = 0
        /\ last.val.val.keys_kept
        /\ last.boot.val.kept \/ (last.boot.val.pre = "absent" /\ last.boot.val.puts = 1)

\* A delete command did not find its key in a store whose master key file
\* it had just created.
C16_Witness ==
  /\ DeleteMissedKey /\ last.err = "Key not found."
  /\ last.boot.val.pre = "absent" /\ ~last.boot.val.kept

\* C16: a delete command for a key the store does not hold ends with "Key
\* not found.", sends no DELETE request and leaves the remote store
\* unchanged.
C16_StoreUnchanged ==
  DeleteMissedKey =>
     /\ ~last.ok /\ last.err = "Key not found."
     /\ last.val.val.deletes = 0
     /\ last.val.val.keys_kept /\ last.boot.val.kept

(***************************************************************************)
(* The cipher primitive on its own: one record is encrypted, possibly      *)
(* altered in storage, and decrypted.                                      *)
(***************************************************************************)
Plaintexts == {AsBytes(""), AsBytes("secret data content"), RawBytes("ff fe")}
CipherPasswords == {"", "correct_password", "wrong_password"}

TamperKinds == {"salt_other", "salt_malformed",
                "nonce_other", "nonce_short", "nonce_malformed",
                "ct_flip", "ct_splice", "ct_malformed"}
TamperedField(kind) ==
  IF kind \in {"salt_other", "salt_malformed"} THEN "salt"
  ELSE IF kind \in {"nonce_other", "nonce_short", "nonce_malformed"} THEN "nonce"
  ELSE "ciphertext"
ParseErrorKinds == {"salt_malformed", "nonce_short", "nonce_malformed", "ct_malformed"}

\* An alteration of one field of a stored record.  `other` is a record that
\* was encrypted elsewhere.  A ciphertext is spliced in from a record with
\* another salt or nonce: with both equal the result would be `other`
\* itself, an unaltered record, and nobody without the key can seal a new
\* ciphertext under the salt and nonce of `blob`.
Tamper(blob, kind, other) ==
  CASE kind = "salt_other" -> [blob EXCEPT !.salt = other.salt]
    [] kind = "salt_malformed" -> [blob EXCEPT !.salt.wf = FALSE]
    [] kind = "nonce_other" -> [blob EXCEPT !.nonce = other.nonce]
    [] kind = "nonce_short" ->
         [blob EXCEPT !.nonce = B64Encode(SubSeq(blob.nonce.bytes, 1, NonceLen \div 2))]
    [] kind = "nonce_malformed" -> [blob EXCEPT !.nonce.wf = FALSE]
    [] kind = "ct_flip" -> [blob EXCEPT !.ciphertext.bytes.intact = FALSE]
    [] kind = "ct_splice" -> [blob EXCEPT !.ciphertext = other.ciphertext]
    [] kind = "ct_malformed" -> [blob EXCEPT !.ciphertext.wf = FALSE]

CxInit ==
  /\ cx \in [stage : {"input"}, data : Plaintexts, password : CipherPasswords]
  /\ config_file = NoneV
  /\ token_file = NoneV
  /\ github = NoRepository
  /\ rp = RpIdle
  /\ last = NoCommand

CxEncrypt ==
  /\ cx.stage = "input"
  /\ UNCHANGED sysvars
  /\ \E r \in Rnd :
       LET e == encrypt(cx.data, cx.password, r) IN
       cx' = IF e.ok
             THEN [stage |-> "stored", data |-> cx.data, password |-> cx.password,
                   blob |-> e.val, sealed |-> e.val, tamper |-> "none"]
             ELSE [stage |-> "failed", data |-> cx.data, password |-> cx.password]

CxTamper ==
  /\ cx.stage = "stored"
  /\ UNCHANGED sysvars
  /\ cx.tamper = "none"
  /\ \E kind \in TamperKinds, d \in Plaintexts, pw \in CipherPasswords, r \in Rnd :
       LET other == encrypt(d, pw, r).val
           t == Tamper(cx.blob, kind, other)
       IN /\ t[TamperedField(kind)] # cx.blob[TamperedField(kind)]
          /\ kind = "ct_splice" =>
               (other.salt # cx.blob.salt \/ other.nonce # cx.blob.nonce)
          /\ cx' = [cx EXCEPT !.blob = t, !.tamper = kind]

CxDecrypt ==
  /\ cx.stage = "stored"
  /\ UNCHANGED sysvars
  /\ \E pw \in CipherPasswords :
       cx' = [stage |-> "opened", data |-> cx.data, password |-> cx.password,
              blob |-> cx.blob, sealed |-> cx.sealed, tamper |-> cx.tamper,
              with |-> pw, out |-> decrypt(cx.blob, pw)]

CxNext == CxEncrypt \/ CxTamper \/ CxDecrypt

SpecCipher == CxInit /\ [][CxNext]_vars

\* C9: decrypting an unaltered record with the password it was encrypted
\* under succeeds and returns exactly the plaintext.
C9_RoundTrip ==
  /\ cx.stage # "failed"
  /\ (cx.stage = "opened" /\ cx.tamper = "none" /\ cx.with = cx.password)
       => cx.out = Ok(cx.data)
\* An unaltered record was decrypted with its password.
C9_Witness ==
  /\ cx.stage = "opened" /\ cx.tamper = "none" /\ cx.with = cx.password
  /\ cx.data = AsBytes("secret data content") /\ cx.out.ok

ParseError(kind) ==
  CASE kind = "salt_malformed" -> "Invalid salt"
    [] kind = "nonce_malformed" -> "Invalid nonce base64"
    [] kind = "nonce_short" -> "Invalid nonce length"
    [] kind = "ct_malformed" -> "Invalid ciphertext base64"

MaxEncryptions == 3
MaxOtherDraws == 2

OsRngNext(drawn) == drawn + 1

RndInit ==
  /\ cx \in [stage : {"rng"}, data : Plaintexts, password : CipherPasswords,
             drawn : {0}, others : {0}, out : {<<>>}]
  /\ config_file = NoneV
  /\ token_file = NoneV
  /\ github = NoRepository
  /\ rp = RpIdle
  /\ last = NoCommand

RndEncrypt ==
  /\ cx.stage = "rng"
  /\ Len(cx.out) < MaxEncryptions
  /\ UNCHANGED sysvars
  /\ LET drew(salt, nonce) ==
           cx' = [cx EXCEPT !.drawn = nonce,
                    !.out = Append(@, encrypt(cx.data, cx.password,
                                              [salt |-> salt, nonce |-> nonce]).val)]
     IN drew(OsRngNext(cx.drawn), OsRngNext(OsRngNext(cx.drawn)))

RndDraw ==
  /\ cx.stage = "rng"
  /\ cx.others < MaxOtherDraws
  /\ UNCHANGED sysvars
  /\ cx' = [cx EXCEPT !.drawn = OsRngNext(@), !.others = @ + 1]

RndNext == RndEncrypt \/ RndDraw

SpecRandom == RndInit /\ [][RndNext]_vars

\* C11: any two encryptions of the same plaintext under the same password
\* differ in salt, in nonce and in ciphertext.
C11_EncryptionsDiffer ==
  cx.stage = "rng" =>
    \A i \in 1..Len(cx.out), j \in 1..Len(cx.out) :
      i # j => /\ cx.out[i].salt # cx.out[j].salt
               /\ cx.out[i].nonce # cx.out[j].nonce
               /\ cx.out[i].ciphertext # cx.out[j].ciphertext

\* The same plaintext was encrypted three times under the same password.
C11_Witness == cx.stage = "rng" /\ Len(cx.out) = 3 /\ cx.others > 0

(***************************************************************************)
(* The blob store under two clients.  Each client runs one storage call at *)
(* a time; save_blob and delete_blob take two steps, the read of the       *)
(* file's sha and the write that names it, so that the calls of the two    *)
(* clients interleave.  A client's record keeps, of its last call: what    *)
(* the read found, the length of the commit log at the read (`epoch`), at  *)
(* the last request (`at`) and after it (`post`), the file as the last     *)
(* request met it (`cur`), the result, and the write requests sent; `who`  *)
(* is the client that took the last step.                                  *)
(***************************************************************************)
Clients == {"c1", "c2"}
MaxOps == 4
ClientIdle ==
  [pc |-> "idle", op |-> "none", key |-> "", net |-> NoFailure,
   found |-> Ok(NoneV), sha |-> NoneV, data |-> NoneV, ref |-> 0,
   epoch |-> 0, at |-> 0, post |-> 0, cur |-> NoneV, res |-> Ok("none"), sent |-> 0]
\* What Store hands to save_blob: the JSON of a value encrypted under the
\* master key, with a salt and a nonce newly drawn.
FreshData(drawn) ==
  ToJsonVec(encrypt(AsBytes("v1"), "mk-A", [salt |-> drawn, nonce |-> drawn]).val)
KeyPath(key) == build_key_path(key).val
Log == github.commits.val

StoreInit ==
  /\ cx = [stage |-> "store", clients |-> [c \in Clients |-> ClientIdle],
           ops |-> 0, drawn |-> 0, who |-> ""]
  /\ config_file = NoneV
  /\ token_file = NoneV
  /\ github = init_repo([NoRepository EXCEPT !.commits = Some(<<>>)], NoFailure).gh
  /\ rp = RpIdle
  /\ last = NoCommand

StCanStart(c) ==
  cx.stage = "store" /\ cx.clients[c].pc = "idle" /\ cx.ops < MaxOps

\* save_blob up to the read of the sha.
StSaveRead(c) ==
  /\ StCanStart(c)
  /\ UNCHANGED sysvars
  /\ \E key \in Keys, net \in Failures({"blob_sha", "blob_put"}) :
       cx' = [cx EXCEPT !.who = c, !.ops = @ + 1, !.drawn = OsRngNext(@),
                        !.clients[c] =
                          [ClientIdle EXCEPT !.pc = "put", !.op = "save", !.key = key,
                                             !.net = net,
                                             !.sha = save_blob_sha(github, key, net),
                                             !.data = Some(FreshData(OsRngNext(cx.drawn))),
                                             !.epoch = Len(Log)]]

\* save_blob from the PUT on.
StSavePut(c) ==
  /\ cx.stage = "store" /\ cx.clients[c].pc = "put"
  /\ UNCHANGED <<config_file, token_file, rp, last>>
  /\ LET done(k, saved) ==
           /\ github' = saved.gh
           /\ cx' = [cx EXCEPT !.who = c, !.clients[c] =
                       [k EXCEPT !.pc = "idle", !.at = Len(Log),
                                 !.post = Len(saved.gh.commits.val),
                                 !.cur = github.files[KeyPath(k.key)],
                                 !.res = saved.res, !.sent = saved.puts]]
     IN done(cx.clients[c],
             save_blob_put(github, cx.clients[c].key, cx.clients[c].data.val,
                           cx.clients[c].sha, cx.clients[c].net))

\* delete_blob up to the read of the sha.
StDeleteRead(c) ==
  /\ StCanStart(c)
  /\ UNCHANGED sysvars
  /\ \E key \in Keys, net \in Failures({"blob_del_sha", "blob_delete"}) :
       cx' = [cx EXCEPT !.who = c, !.ops = @ + 1,
                        !.clients[c] =
                          [ClientIdle EXCEPT !.pc = "del", !.op = "delete", !.key = key,
                                             !.net = net,
                                             !.found = get_blob(github, key, net,
                                                                "blob_del_sha"),
                                             !.epoch = Len(Log)]]

\* delete_blob after the read.
StDeleteSend(c) ==
  /\ cx.stage = "store" /\ cx.clients[c].pc = "del"
  /\ UNCHANGED <<config_file, token_file, rp, last>>
  /\ LET done(k, deleted) ==
           /\ github' = deleted.gh
           /\ cx' = [cx EXCEPT !.who = c, !.clients[c] =
                       [k EXCEPT !.pc = "idle", !.at = Len(Log),
                                 !.post = Len(deleted.gh.commits.val),
                                 !.cur = github.files[KeyPath(k.key)],
                                 !.res = deleted.res, !.sent = deleted.deletes]]
     IN done(cx.clients[c],
             delete_blob_send(github, cx.clients[c].key, cx.clients[c].found,
                              cx.clients[c].net))

StGet(c) ==
  /\ StCanStart(c)
  /\ UNCHANGED sysvars
  /\ \E key \in Keys, net \in Failures({"blob_get"}) :
       cx' = [cx EXCEPT !.who = c, !.ops = @ + 1,
                        !.clients[c] =
                          [ClientIdle EXCEPT !.op = "get", !.key = key, !.net = net,
                                             !.epoch = Len(Log), !.at = Len(Log),
                                             !.post = Len(Log),
                                             !.cur = github.files[KeyPath(key)],
                                             !.res = get_blob(github, key, net,
                                                              "blob_get")]]

StGetAt(c) ==
  /\ StCanStart(c)
  /\ UNCHANGED sysvars
  /\ \E key \in Keys, ref \in 0..(Len(Log) + 1), net \in Failures({"blob_at"}) :
       cx' = [cx EXCEPT !.who = c, !.ops = @ + 1,
                        !.clients[c] =
                          [ClientIdle EXCEPT !.op = "get_at", !.key = key, !.net = net,
                                             !.ref = ref,
                                             !.epoch = Len(Log), !.at = Len(Log),
                                             !.post = Len(Log),
                                             !.cur = github.files[KeyPath(key)],
                                             !.res = get_blob_at_version(github, key,
                                                                         ref, net)]]

StoreNext ==
  \E c \in Clients :
    \/ StSaveRead(c)
    \/ StSavePut(c)
    \/ StDeleteRead(c)
    \/ StDeleteSend(c)
    \/ StGet(c)
    \/ StGetAt(c)

SpecStore == StoreInit /\ [][StoreNext]_vars

Finished(k, op) == k.pc = "idle" /\ k.op = op
Accepted(k) == k.post = k.at + 1

\* C14: when two clients have each read the same sha of a path, both before
\* either sent its PUT, and both have sent their PUT, at most one PUT was
\* accepted and a client whose PUT was not accepted got an error from
\* save_blob.
C14_ConflictingPutRejected ==
  cx.stage = "store" =>
    \A c, d \in Clients :
      LET both(k, m) ==
            (/\ c # d /\ Finished(k, "save") /\ Finished(m, "save")
             /\ k.key = m.key /\ k.sha = m.sha
             /\ k.sent = 1 /\ m.sent = 1
             /\ k.epoch <= m.at /\ m.epoch <= k.at) =>
               /\ ~(Accepted(k) /\ Accepted(m))
               /\ ~Accepted(k) => ~k.res.ok
               /\ k.res.ok => Accepted(k)
      IN both(cx.clients[c], cx.clients[d])

\* Two clients read the same sha of an existing file; the PUT of one was
\* accepted and the other was answered with a conflict.
C14_Witness ==
  /\ cx.stage = "store"
  /\ \E c, d \in Clients :
       /\ c # d
       /\ Finished(cx.clients[c], "save") /\ Finished(cx.clients[d], "save")
       /\ cx.clients[c].sha.some /\ cx.clients[c].sha = cx.clients[d].sha
       /\ cx.clients[c].epoch <= cx.clients[d].at
       /\ cx.clients[d].epoch <= cx.clients[c].at
       /\ Accepted(cx.clients[c]) /\ cx.clients[c].net = NoFailure
       /\ cx.clients[d].net = NoFailure
       /\ ~cx.clients[d].res.ok /\ cx.clients[d].res.err = "Failed to save key"

\* C15: get_blob, when its request is answered, returns nothing and no error
\* for a path that no commit has written, and for a path that holds a file
\* the bytes and the sha of the file the latest commit to the path wrote.
C15_GetBlob ==
  cx.stage = "store" =>
    \A c \in Clients :
      LET got(k, touching) ==
            (Finished(k, "get") /\ k.net = NoFailure) =>
               /\ touching = <<>> => k.res = Ok(NoneV)
               /\ k.cur.some =>
                     /\ touching # <<>>
                     /\ Log[touching[1]].file = k.cur
                     /\ k.res.ok /\ k.res.val.some
                     /\ k.res.val.val.data = k.cur.val.content.bytes
                     /\ k.res.val.val.sha = BlobSha(k.cur.val.content)
               /\ ~k.cur.some => k.res = Ok(NoneV)
      IN got(cx.clients[c], CommitsOf(Log, KeyPath(cx.clients[c].key), cx.clients[c].at))

\* One client got nothing for a path never written, and the other got the
\* file of the second write to the path.
C15_Witness ==
  /\ cx.stage = "store"
  /\ \E c, d \in Clients :
       /\ Finished(cx.clients[c], "get") /\ cx.clients[c].net = NoFailure
       /\ cx.clients[c].at = 0 /\ cx.clients[c].res = Ok(NoneV)
       /\ Finished(cx.clients[d], "get") /\ cx.clients[d].net = NoFailure
       /\ cx.clients[d].at = 2 /\ cx.clients[d].res.ok /\ cx.clients[d].res.val.some

\* C17: delete_blob of a key it found sends one DELETE with the sha it read.
\* When that sha is still the file's and the request is answered, it returns
\* true and the commit it adds removes the path, so that, until a later
\* commit writes the path, the path holds no file and get_blob returns
\* nothing; when the file has changed since the read, the DELETE is refused
\* and delete_blob returns an error.
C17_DeleteExisting ==
  cx.stage = "store" =>
    \A c \in Clients :
      LET deleted(k, path) ==
            (Finished(k, "delete") /\ k.found.ok /\ k.found.val.some
             /\ k.net = NoFailure) =>
               /\ k.sent = 1
               /\ (k.cur.some /\ k.cur.val.sha = k.found.val.val.sha) =>
                     /\ k.res = Ok(TRUE)
                     /\ Accepted(k)
                     /\ Log[k.post].path = path /\ ~Log[k.post].file.some
                     /\ CommitsOf(Log, path, Len(Log))[1] = k.post =>
                           /\ ~github.files[path].some
                           /\ get_blob(github, k.key, NoFailure, "blob_get") = Ok(NoneV)
               /\ ~(k.cur.some /\ k.cur.val.sha = k.found.val.val.sha) =>
                     ~k.res.ok /\ ~Accepted(k)
      IN deleted(cx.clients[c], KeyPath(cx.clients[c].key))

\* A delete_blob returned true for a file written twice, and the other
\* client's get_blob after it returned nothing.
C17_Witness ==
  /\ cx.stage = "store"
  /\ \E c, d \in Clients :
       /\ Finished(cx.clients[c], "delete") /\ cx.clients[c].res = Ok(TRUE)
       /\ cx.clients[c].post = 3 /\ Len(Log) = 3
       /\ Finished(cx.clients[d], "get") /\ cx.clients[d].at = 3
       /\ cx.clients[d].res = Ok(NoneV)

\* C18: a step in which save_blob or delete_blob ends successfully after
\* its write request adds exactly one commit, for the call's path, to the
\* end of the commit log; every other step leaves the log as it is; no step
\* removes or changes a commit.
C18_HistoryAppendOnly ==
  [][cx.stage = "store" =>
       LET step(k, after, path) ==
             IF k.pc \in {"put", "del"} /\ after.res.ok /\ after.sent = 1
             THEN /\ Len(github'.commits.val) = Len(Log) + 1
                  /\ SubSeq(github'.commits.val, 1, Len(Log)) = Log
                  /\ github'.commits.val[Len(Log) + 1].path = path
                  /\ github'.commits.val[Len(Log) + 1].file =
                       (IF k.op = "save" THEN GithubFile(B64Encode(k.data.val))
                        ELSE NoneV)
             ELSE github'.commits.val = Log
       IN step(cx.clients[cx'.who], cx'.clients[cx'.who],
               KeyPath(cx'.clients[cx'.who].key))]_vars

\* The log holds a create, an update and a delete of the path, in that order.
C18_Witness ==
  /\ cx.stage = "store" /\ Len(Log) = 3
  /\ Log[1].file.some /\ Log[2].file.some /\ Log[1].file # Log[2].file
  /\ ~Log[3].file.some
  /\ \A c \in Clients : cx.clients[c].pc = "idle"

\* C20: get_blob_at_version, when its request is answered, returns the bytes
\* that the commit named wrote to the path, whatever was committed to the
\* path later, and nothing when the commit named removed the path or is no
\* commit of the log; the step leaves the store as it is.
C20_GetAtVersion ==
  [][cx.stage = "store" =>
       LET read(k, path) ==
             (k.op = "get_at" /\ k.net = NoFailure) =>
                /\ github' = github
                /\ k.ref \notin 1..Len(Log) => k.res = Ok(NoneV)
                /\ k.ref \in 1..Len(Log) =>
                      IF Log[k.ref].path = path /\ Log[k.ref].file.some
                      THEN k.res = Ok(Some(Log[k.ref].file.val.content.bytes))
                      ELSE Log[k.ref].path = path => k.res = Ok(NoneV)
       IN read(cx'.clients[cx'.who], KeyPath(cx'.clients[cx'.who].key))]_vars

\* get_blob_at_version returned what the first commit wrote, after an
\* update and a delete of the path.
C20_Witness ==
  /\ cx.stage = "store" /\ Len(Log) = 3 /\ ~Log[3].file.some
  /\ \E c \in Clients :
       /\ Finished(cx.clients[c], "get_at") /\ cx.clients[c].at = 3
       /\ cx.clients[c].ref = 1
       /\ cx.clients[c].res = Ok(Some(Log[1].file.val.content.bytes))
       /\ Log[1].file # Log[2].file

(***************************************************************************)
(* The history of a key.  A writer saves the key again and again; a caller *)
(* asks get_key_history for one page; the history command pages through    *)
(* the versions ten at a time.  `call` keeps the last call of              *)
(* get_key_history with the length of the log it met, and `loop` the       *)
(* command: its page, the lengths of the pages it has printed, what it last*)
(* said and how it ended.                                                  *)
(***************************************************************************)
HistoryPageSize == 10
MaxVersions == 12
MaxPage == 3
PageSizes == {3, HistoryPageSize}
NoCall == [page |-> 0, per_page |-> 0, net |-> NoFailure, at |-> 0, res |-> Ok(<<>>)]
NoLoop == [pc |-> "idle", key |-> "", page |-> 0, lens |-> <<>>, said |-> "", end |-> ""]

HistoryInit ==
  /\ cx = [stage |-> "history", drawn |-> 0, call |-> NoCall, loop |-> NoLoop]
  /\ config_file = NoneV
  /\ token_file = NoneV
  /\ github = init_repo([NoRepository EXCEPT !.commits = Some(<<>>)], NoFailure).gh
  /\ rp = RpIdle
  /\ last = NoCommand

\* A store of the key by a writer: one more version.
HsSave ==
  /\ cx.stage = "history" /\ Len(Log) < MaxVersions
  /\ UNCHANGED <<config_file, token_file, rp, last>>
  /\ \E key \in Keys :
       /\ github' = save_blob(github, key, FreshData(OsRngNext(cx.drawn)), NoFailure).gh
       /\ cx' = [cx EXCEPT !.drawn = OsRngNext(@)]

\* One call of get_key_history.
HsCall ==
  /\ cx.stage = "history"
  /\ UNCHANGED sysvars
  /\ \E key \in Keys, page \in 1..MaxPage, per_page \in PageSizes,
        net \in Failures({"commits"}) :
       cx' = [cx EXCEPT !.call = [page |-> page, per_page |-> per_page, net |-> net,
                                  at |-> Len(Log),
                                  res |-> get_key_history(github, key, page,
                                                          per_page, net)]]

\* main.rs, Commands::History: let mut page = 1.
HsBegin ==
  /\ cx.stage = "history" /\ cx.loop.pc \in {"idle", "done"}
  /\ UNCHANGED sysvars
  /\ \E key \in Keys :
       cx' = [cx EXCEPT !.loop = [NoLoop EXCEPT !.pc = "fetch", !.key = key, !.page = 1]]

\* One turn of the loop, up to the prompt.
HsFetch ==
  /\ cx.stage = "history" /\ cx.loop.pc = "fetch"
  /\ UNCHANGED sysvars
  /\ \E net \in Failures({"commits"}) :
       LET turn(versions) ==
             IF ~versions.ok
             THEN cx' = [cx EXCEPT !.loop.pc = "done", !.loop.end = versions.err]
             ELSE IF versions.val = <<>>
             THEN cx' = [cx EXCEPT !.loop.pc = "done", !.loop.end = "empty",
                                   !.loop.lens = Append(@, 0),
                                   !.loop.said = IF cx.loop.page = 1
                                                 THEN "No history found for key"
                                                 ELSE "No more versions found."]
             ELSE IF Len(versions.val) < HistoryPageSize
             THEN cx' = [cx EXCEPT !.loop.pc = "done", !.loop.end = "short",
                                   !.loop.lens = Append(@, Len(versions.val)),
                                   !.loop.said = "Version History"]
             ELSE cx' = [cx EXCEPT !.loop.pc = "prompt",
                                   !.loop.lens = Append(@, Len(versions.val)),
                                   !.loop.said = "Version History"]
       IN turn(get_key_history(github, cx.loop.key, cx.loop.page, HistoryPageSize, net))

\* prompt_yes_no("Show more versions?") and page += 1.
HsPrompt ==
  /\ cx.stage = "history" /\ cx.loop.pc = "prompt"
  /\ UNCHANGED sysvars
  /\ \E more \in BOOLEAN :
       cx' = IF more THEN [cx EXCEPT !.loop.pc = "fetch", !.loop.page = @ + 1]
             ELSE [cx EXCEPT !.loop.pc = "done", !.loop.end = "declined"]

HistoryNext == HsSave \/ HsCall \/ HsBegin \/ HsFetch \/ HsPrompt

SpecHistory == HistoryInit /\ [][HistoryNext]_vars

\* How many versions page `page` of `per_page` holds when there are `n`.
PageLen(n, page, per_page) ==
  IF n <= (page - 1) * per_page THEN 0
  ELSE IF n >= page * per_page THEN per_page
  ELSE n - (page - 1) * per_page

\* C19: get_key_history, when its request is answered, returns the page's
\* share of the key's versions, the newest first and each page older than
\* the page before it, and an empty list without error for a page past the
\* last version; the history command asks for a further page only after a
\* page of ten, and ends at the first page that is empty or shorter.
C19_HistoryPages ==
  cx.stage = "history" =>
    /\ LET page(k) ==
             k.net = NoFailure =>
               /\ k.res.ok
               /\ Len(k.res.val) = PageLen(k.at, k.page, k.per_page)
               /\ \A i \in 1..Len(k.res.val) :
                    /\ k.res.val[i].sha = k.at - (k.page - 1) * k.per_page - i + 1
                    /\ k.res.val[i].message = Log[k.res.val[i].sha].message
               /\ k.at <= (k.page - 1) * k.per_page => k.res = Ok(<<>>)
       IN page(cx.call)
    /\ LET paging(l) ==
             /\ \A i \in 1..(Len(l.lens) - 1) : l.lens[i] = HistoryPageSize
             /\ l.pc \in {"fetch", "prompt"} =>
                   \A i \in 1..Len(l.lens) : l.lens[i] = HistoryPageSize
             /\ l.pc = "fetch" => l.page = Len(l.lens) + 1
             /\ (Len(l.lens) > 0 /\ l.lens[Len(l.lens)] < HistoryPageSize) =>
                   l.pc = "done" /\ l.end \in {"empty", "short"}
             /\ l.end = "empty" => l.lens[Len(l.lens)] = 0
       IN paging(cx.loop)

\* A call for page 2 of ten met fewer than ten versions and returned the
\* empty list; the command printed a page of ten and ended at an empty
\* second page.
C19_Witness ==
  /\ cx.stage = "history"
  /\ cx.call.page = 2 /\ cx.call.per_page = HistoryPageSize
  /\ cx.call.at \in 1..(HistoryPageSize - 1) /\ cx.call.res = Ok(<<>>)
  /\ cx.loop.pc = "done" /\ cx.loop.lens = <<HistoryPageSize, 0>>
  /\ cx.loop.said = "No more versions found."

(***************************************************************************)
(* storage.rs, validate_category and build_key_path, on strings as         *)
(* sequences of characters.  build_key_path above is build_key_path_chars  *)
(* on the names of Keys with no category, for which it returns Ok.         *)
(***************************************************************************)
Alphanumeric == {"a", "7"}
Whitespace == {" "}
Chars == Alphanumeric \cup Whitespace \cup {"-", "_", "/", "\\", ".", "@"}
MaxCategoryLen == 4
MaxKeyLen == 3
Strings(n) == UNION {[1..m -> Chars] : m \in 0..n}

\* str::trim_start_matches / trim_end_matches on a set of characters.
RECURSIVE TrimStart(_, _)
TrimStart(str, set) ==
  IF str # <<>> /\ Head(str) \in set THEN TrimStart(Tail(str), set) ELSE str
RECURSIVE TrimEnd(_, _)
TrimEnd(str, set) ==
  IF str # <<>> /\ str[Len(str)] \in set
  THEN TrimEnd(SubSeq(str, 1, Len(str) - 1), set) ELSE str
\* str::trim and str::trim_matches('/').
Trim(str) == TrimEnd(TrimStart(str, Whitespace), Whitespace)
TrimMatches(str, set) == TrimEnd(TrimStart(str, set), set)
\* str::split(sep): the pieces between the separators, empty ones too.
RECURSIVE Split(_, _)
Split(str, sep) ==
  IF \A i \in 1..Len(str) : str[i] # sep THEN <<str>>
  ELSE LET cut(at) ==
             <<SubSeq(str, 1, at - 1)>> \o Split(SubSeq(str, at + 1, Len(str)), sep)
       IN cut(CHOOSE i \in 1..Len(str) :
                str[i] = sep /\ \A j \in 1..(i - 1) : str[j] # sep)
\* [&str]::join(sep)
RECURSIVE Join(_, _)
Join(parts, sep) ==
  IF parts = <<>> THEN <<>>
  ELSE IF Len(parts) = 1 THEN parts[1]
  ELSE parts[1] \o <<sep>> \o Join(Tail(parts), sep)
\* Iterator::filter, as a sequence.
RECURSIVE NonEmpty(_)
NonEmpty(parts) ==
  IF parts = <<>> THEN <<>>
  ELSE IF parts[1] = <<>> THEN NonEmpty(Tail(parts))
  ELSE <<parts[1]>> \o NonEmpty(Tail(parts))
\* chars().all(|c| c.is_alphanumeric() || c == '-' || c == '_')
NameChar(c) == c \in Alphanumeric \/ c = "-" \/ c = "_"
AllNameChars(str) == \A i \in 1..Len(str) : NameChar(str[i])

\* The first segment, in order, that the loop returns an error for.
SegmentError(segment) ==
  IF segment = <<>> THEN "Category path contains empty segments"
  ELSE IF ~AllNameChars(segment) THEN "Category segment contains invalid characters"
  ELSE IF segment = <<".", ".">> \/ segment = <<".">>
  THEN "Category path cannot contain '.' or '..'"
  ELSE ""
RECURSIVE FirstSegmentError(_)
FirstSegmentError(segments) ==
  IF segments = <<>> THEN ""
  ELSE IF SegmentError(Trim(segments[1])) # "" THEN SegmentError(Trim(segments[1]))
  ELSE FirstSegmentError(Tail(segments))

\* validate_category whose loop does not return for an empty segment.
validate_category_skip_empty(category) ==
  IF ~category.some THEN Ok(NoneV)
  ELSE LET checked(cat) ==
             IF cat = <<>> THEN Ok(NoneV)
             ELSE LET looped(err) ==
                        IF err # "" THEN Err(err)
                        ELSE Ok(Some(Join(NonEmpty([i \in 1..Len(Split(cat, "/")) |->
                                                     Trim(Split(cat, "/")[i])]), "/")))
                  IN looped(FirstSegmentError(NonEmpty([i \in 1..Len(Split(cat, "/")) |->
                                                        Trim(Split(cat, "/")[i])])))
       IN checked(TrimMatches(Trim(category.val), {"/"}))

validate_category(category) ==
  IF ~category.some THEN Ok(NoneV)
  ELSE LET checked(cat) ==
             IF cat = <<>> THEN Ok(NoneV)
             ELSE LET looped(err) ==
                        IF err # "" THEN Err(err)
                        ELSE Ok(Some(Join(NonEmpty([i \in 1..Len(Split(cat, "/")) |->
                                                     Trim(Split(cat, "/")[i])]), "/")))
                  IN looped(FirstSegmentError(Split(cat, "/")))
       IN checked(TrimMatches(Trim(category.val), {"/"}))

KeysDir == <<"k", "e", "y", "s", "/">>
DotJson == <<".", "j", "s", "o", "n">>
build_key_path_chars(key, category) ==
  LET build(validated_category) ==
        IF ~validated_category.ok THEN validated_category
        ELSE IF (\E i \in 1..Len(key) : key[i] = "/")
                \/ (\E i \in 1..Len(key) : key[i] = "\\")
        THEN Err("Key name cannot contain path separators. Use --category for organizing keys.")
        ELSE IF validated_category.val.some
        THEN Ok(KeysDir \o validated_category.val.val \o <<"/">> \o key \o DotJson)
        ELSE Ok(KeysDir \o key \o DotJson)
  IN build(validate_category(category))

\* The inputs: any category with a plain key name, and any key name with
\* no category, a plain one and one that is rejected.
PathInputs ==
  [category : {NoneV} \cup {Some(str) : str \in Strings(MaxCategoryLen)},
   key : {<<"a">>}]
  \cup [category : {NoneV, Some(<<"a">>), Some(<<"a", "@">>)},
        key : Strings(MaxKeyLen)]

PathInit ==
  /\ cx \in [stage : {"path"}, input : PathInputs, called : {""}, res : {Ok(NoneV)}]
  /\ config_file = NoneV
  /\ token_file = NoneV
  /\ github = NoRepository
  /\ rp = RpIdle
  /\ last = NoCommand

PathValidate ==
  /\ cx.stage = "path" /\ cx.called = ""
  /\ UNCHANGED sysvars
  /\ cx' = [cx EXCEPT !.called = "validate_category",
                      !.res = validate_category(cx.input.category)]

PathBuild ==
  /\ cx.stage = "path" /\ cx.called = ""
  /\ UNCHANGED sysvars
  /\ cx' = [cx EXCEPT !.called = "build_key_path",
                      !.res = build_key_path_chars(cx.input.key, cx.input.category)]

PathNext == PathValidate \/ PathBuild

SpecPath == PathInit /\ [][PathNext]_vars

\* What the claims say of a list of segments.
BadSegment(segment) ==
  \/ segment = <<>>
  \/ segment = <<".">> \/ segment = <<".", ".">>
  \/ ~AllNameChars(segment)
Trimmed(segments) == [i \in 1..Len(segments) |-> Trim(segments[i])]
\* A category path as the claims describe it: segments of name characters,
\* one '/' between them.
WellFormedCategory(str) ==
  /\ str # <<>> /\ str[1] # "/" /\ str[Len(str)] # "/"
  /\ \A i \in 1..Len(str) : NameChar(str[i]) \/ str[i] = "/"
  /\ \A i \in 1..(Len(str) - 1) : ~(str[i] = "/" /\ str[i + 1] = "/")
Validated == cx.stage = "path" /\ cx.called = "validate_category"

\* C21: validate_category strips the whitespace around the category, then
\* its leading and trailing '/', and the whitespace around each segment; it
\* returns no category for an absent category and for one that is empty
\* once stripped, an error exactly when a segment so trimmed is empty, is
\* '.' or '..', or holds a character that is not alphanumeric, '-' or '_',
\* and otherwise the trimmed segments joined by '/'.
C21_ValidateCategory ==
  Validated =>
    IF ~cx.input.category.some THEN cx.res = Ok(NoneV)
    ELSE LET says(cat) ==
               IF cat = <<>> THEN cx.res = Ok(NoneV)
               ELSE /\ cx.res.ok <=>
                         \A i \in 1..Len(Split(cat, "/")) :
                            ~BadSegment(Trim(Split(cat, "/")[i]))
                    /\ cx.res.ok =>
                         /\ cx.res.val = Some(Join(Trimmed(Split(cat, "/")), "/"))
                         /\ WellFormedCategory(cx.res.val.val)
         IN says(TrimMatches(Trim(cx.input.category.val), {"/"}))

\* A category with whitespace around an inner segment was accepted and
\* returned without it.
C21_Witness ==
  /\ Validated
  /\ cx.input.category = Some(<<"a", " ", "/", "7">>)
  /\ cx.res = Ok(Some(<<"a", "/", "7">>))

\* C21: validate_category strips leading and trailing '/' and the
\* whitespace around the category; it returns no category for an absent or
\* empty category, an error for a category one of whose segments is empty,
\* is '.' or '..', or holds a character that is not alphanumeric, '-' or
\* '_', and otherwise the segments joined by '/'.
C21_RejectsOtherCharacters ==
  Validated =>
    IF ~cx.input.category.some THEN cx.res = Ok(NoneV)
    ELSE IF TrimMatches(Trim(cx.input.category.val), {"/"}) = <<>>
    THEN cx.res = Ok(NoneV)
    ELSE LET says(segments) ==
               /\ (\E i \in 1..Len(segments) : BadSegment(segments[i])) => ~cx.res.ok
               /\ cx.res.ok => cx.res.val = Some(Join(segments, "/"))
         IN says(Split(TrimMatches(cx.input.category.val, Whitespace \cup {"/"}), "/"))

\* C22: build_key_path returns an error for a key name that is empty, is
\* '.' or '..', contains '/' or holds a character that is not alphanumeric,
\* '-' or '_', with or without a category; a path it returns is "keys/",
\* the validated category and '/' if there is one, a name of such
\* characters, and ".json".
C22_KeyNameValidated ==
  (cx.stage = "path" /\ cx.called = "build_key_path") =>
    /\ BadSegment(cx.input.key) => ~cx.res.ok
    /\ cx.res.ok =>
          /\ ~BadSegment(cx.input.key)
          /\ LET made(category) ==
                   /\ category.ok
                   /\ category.val.some => WellFormedCategory(category.val.val)
                   /\ cx.res.val =
                        KeysDir
                        \o (IF category.val.some THEN category.val.val \o <<"/">>
                            ELSE <<>>)
                        \o cx.input.key \o DotJson
             IN made(validate_category(cx.input.category))


(***************************************************************************)
(* The credential vault of one profile on its own: the calls of auth.rs    *)
(* and config.rs on the profile's config.json and github_token.json, and   *)
(* the loss of config.json.  `cx.call` is the last call and its result,    *)
(* `cx.drawn` the number of LMKs generated so far, `cx.stored` the last     *)
(* token saved and `cx.repo` the last repository name set.                 *)
(***************************************************************************)
MaxLmks == 2
VaultTokens == {"gho_1", "gho_2"}
VaultRepos == {"vault", "vault-2"}
\* The n-th LMK generated: fresh random bytes never repeat an earlier LMK.
VaultLmk(n) == "lmk-" \o ToString(n)
NoVaultCall == [fn |-> "none", password |-> "", arg |-> "", res |-> Ok("")]

VaultInit ==
  /\ cx = [stage |-> "vault", call |-> NoVaultCall, drawn |-> 0,
           stored |-> NoneV, repo |-> NoneV]
  /\ config_file = NoneV
  /\ token_file = NoneV
  /\ github = NoRepository
  /\ rp = RpIdle
  /\ last = NoCommand

HasLmk(file) == load_with_profile(file).encrypted_lmk.some
Drawn(before, after, drawn) ==
  IF ~HasLmk(before) /\ HasLmk(after) THEN drawn + 1 ELSE drawn

\* save_token_with_profile(profile, token, password)
VtSaveToken ==
  /\ cx.stage = "vault"
  /\ \E token \in VaultTokens, password \in Passwords, r1 \in SysRnd, r2 \in SysRnd :
       LET saved(out) ==
             /\ config_file' = out.file
             /\ token_file' = out.tok
             /\ cx' = [cx EXCEPT
                         !.call = [fn |-> "save_token", password |-> password,
                                   arg |-> token, res |-> out.res],
                         !.drawn = Drawn(config_file, out.file, @),
                         !.stored = IF out.res.ok
                                    THEN Some([token |-> token, password |-> password])
                                    ELSE @]
       IN saved(save_token_with_profile(config_file, token_file, token, password,
                                        VaultLmk(cx.drawn + 1), r1, r2))
  /\ UNCHANGED <<github, rp, last>>

\* get_saved_token_with_profile(profile, password)
VtLoadToken ==
  /\ cx.stage = "vault"
  /\ \E password \in Passwords, r \in SysRnd :
       LET loaded(out) ==
             /\ config_file' = out.file
             /\ cx' = [cx EXCEPT
                         !.call = [fn |-> "load_token", password |-> password,
                                   arg |-> "", res |-> out.res],
                         !.drawn = Drawn(config_file, out.file, @)]
       IN loaded(get_saved_token_with_profile(config_file, token_file, password,
                                              VaultLmk(cx.drawn + 1), r))
  /\ UNCHANGED <<token_file, github, rp, last>>

\* Config::get_or_create_lmk_with_profile(profile, password)
VtBootstrap ==
  /\ cx.stage = "vault"
  /\ \E password \in Passwords, r \in SysRnd :
       LET done(out) ==
             /\ config_file' = out.file
             /\ cx' = [cx EXCEPT
                         !.call = [fn |-> "bootstrap", password |-> password,
                                   arg |-> "", res |-> out.res],
                         !.drawn = Drawn(config_file, out.file, @)]
       IN done(get_or_create_lmk_with_profile(config_file, password,
                                              VaultLmk(cx.drawn + 1), r))
  /\ UNCHANGED <<token_file, github, rp, last>>

\* Config::set_repo_name_with_profile(profile, name, password)
VtSetRepo ==
  /\ cx.stage = "vault"
  /\ \E name \in VaultRepos, password \in Passwords, r \in SysRnd :
       LET set(out) ==
             /\ config_file' = out.file
             /\ cx' = [cx EXCEPT
                         !.call = [fn |-> "set_repo", password |-> password,
                                   arg |-> name, res |-> out.res],
                         !.repo = IF out.res.ok
                                  THEN Some([name |-> name, password |-> password,
                                             sets |-> IF @.some THEN 2 ELSE 1])
                                  ELSE @]
       IN set(set_repo_name_with_profile(config_file, name, password, r))
  /\ UNCHANGED <<token_file, github, rp, last>>

\* Config::get_repo_name_with_profile(profile, password)
VtGetRepo ==
  /\ cx.stage = "vault"
  /\ \E password \in Passwords :
       cx' = [cx EXCEPT
                !.call = [fn |-> "get_repo", password |-> password, arg |-> "",
                          res |-> get_repo_name_with_profile(config_file, password)]]
  /\ UNCHANGED <<config_file, token_file, github, rp, last>>

\* config.json is removed or left unreadable: load_with_profile then gives
\* the default configuration, with no LMK record and no repository name.
VtConfigLost ==
  /\ cx.stage = "vault"
  /\ config_file.some
  /\ cx.drawn < MaxLmks
  /\ config_file' = NoneV
  /\ cx' = [cx EXCEPT !.call = [NoVaultCall EXCEPT !.fn = "config_lost"],
                      !.repo = NoneV]
  /\ UNCHANGED <<token_file, github, rp, last>>

VaultNext ==
  \/ VtSaveToken \/ VtLoadToken \/ VtBootstrap
  \/ VtSetRepo \/ VtGetRepo \/ VtConfigLost

SpecVault == VaultInit /\ [][VaultNext]_vars

\* The LMK that `password` unwraps from the profile's LMK record.
UnwrappedLmk(file, password) ==
  FromUtf8(decrypt(load_with_profile(file).encrypted_lmk.val, password).val).val
\* The token record opens under the LMK that `password` unwraps.
OpensToken(file, tok, password) ==
  /\ LmkOpens(file, password)
  /\ decrypt(tok.val, UnwrappedLmk(file, password)).ok
LoadedAfterStore ==
  /\ cx.call.fn = "load_token"
  /\ cx.stored.some
  /\ cx.call.password = cx.stored.val.password

\* C23 as stated: the token record opens under the master password that
\* stored it, and LoadToken with that password returns the stored token
\* whatever has become of the LMK record.
C23_TokenUnderPassword ==
  cx.stage = "vault" =>
    /\ token_file.some => decrypt(token_file.val, cx.stored.val.password).ok
    /\ LoadedAfterStore => cx.call.res = Ok(cx.stored.val.token)

\* C23, amended: StoreToken wraps the token with the LMK and not with the
\* master password.  No password opens the token record; one of the LMKs
\* generated for the profile opens it to the last token stored; and
\* LoadToken returns that token exactly when the profile's LMK record opens
\* under the password to the LMK that wraps the token, so it fails once the
\* LMK record is missing or replaced.
C23_TokenUnderLmk ==
  cx.stage = "vault" /\ token_file.some =>
    /\ \A password \in Passwords : ~decrypt(token_file.val, password).ok
    /\ \E n \in 1..cx.drawn :
         /\ decrypt(token_file.val, VaultLmk(n)).ok
         /\ FromUtf8(decrypt(token_file.val, VaultLmk(n)).val)
              = Ok(cx.stored.val.token)
    /\ cx.call.fn = "load_token" =>
         /\ cx.call.res.ok <=> OpensToken(config_file, token_file, cx.call.password)
         /\ cx.call.res.ok => cx.call.res = Ok(cx.stored.val.token)

\* LoadToken with the storing password fails after the LMK record was
\* replaced.
C23_Witness ==
  /\ cx.stage = "vault"
  /\ LoadedAfterStore
  /\ LmkOpens(config_file, cx.call.password)
  /\ cx.drawn = 2
  /\ cx.call.res = Err("Incorrect master password or corrupted local master key.")

\* C24: LoadToken on a profile with no token record fails with NotLoggedIn
\* for every password and leaves config.json and github_token.json as they
\* were; LoadToken straight after a successful StoreToken with the same
\* password returns the token stored.
C24_LoadTokenNotLoggedIn ==
  [][cx'.call.fn = "load_token" =>
       /\ ~token_file.some =>
            /\ cx'.call.res = Err("Not logged in")
            /\ config_file' = config_file
            /\ token_file' = token_file
       /\ (cx.call.fn = "save_token" /\ cx.call.res.ok
             /\ cx.call.password = cx'.call.password) =>
            cx'.call.res = Ok(cx.call.arg)]_vars

\* C25: Bootstrap creates the LMK at most once.  While the profile has an
\* LMK record no call changes the LMK it holds; Bootstrap with the password
\* that wraps it returns that LMK and leaves config.json as it was, and with
\* another password fails with IncorrectPassword and leaves config.json as it
\* was; without an LMK record Bootstrap generates an LMK, stores it wrapped
\* under the password and returns it.
C25_BootstrapOnce ==
  [][/\ (HasLmk(config_file) /\ HasLmk(config_file')) =>
          \A password \in Passwords :
            /\ LmkOpens(config_file', password) <=> LmkOpens(config_file, password)
            /\ LmkOpens(config_file, password) =>
                 UnwrappedLmk(config_file', password)
                   = UnwrappedLmk(config_file, password)
     /\ cx'.call.fn = "bootstrap" =>
          IF HasLmk(config_file)
          THEN /\ config_file' = config_file
               /\ cx'.drawn = cx.drawn
               /\ cx'.call.res =
                    IF LmkOpens(config_file, cx'.call.password)
                    THEN Ok(UnwrappedLmk(config_file, cx'.call.password))
                    ELSE Err("IncorrectPassword")
          ELSE /\ cx'.call.res = Ok(VaultLmk(cx.drawn + 1))
               /\ LmkOpens(config_file', cx'.call.password)
               /\ UnwrappedLmk(config_file', cx'.call.password) = cx'.call.res.val]_vars

\* Bootstrap with another password than the one that wraps the LMK.
C25_Witness ==
  /\ cx.stage = "vault"
  /\ cx.call.fn = "bootstrap"
  /\ HasLmk(config_file)
  /\ cx.call.res = Err("IncorrectPassword")

\* C27: get_repo_name_with_profile fails with "not configured" when no
\* repository name is set, fails when the password is not the one given to
\* the last set_repo_name_with_profile, and otherwise returns the name given
\* to the last set_repo_name_with_profile.
C27_RepoNameRoundTrip ==
  (cx.stage = "vault" /\ cx.call.fn = "get_repo") =>
    IF ~cx.repo.some
    THEN /\ ~Configured(config_file)
         /\ cx.call.res = Err("Repository not configured")
    ELSE /\ Configured(config_file)
         /\ cx.call.res =
              IF cx.call.password # cx.repo.val.password
              THEN Err("Incorrect master password or corrupted local configuration.")
              ELSE Ok(cx.repo.val.name)

\* The name set second is the one returned.
C27_Witness ==
  /\ cx.stage = "vault"
  /\ cx.call.fn = "get_repo"
  /\ cx.repo.some
  /\ cx.repo.val.sets >= 2
  /\ cx.call.res = Ok(cx.repo.val.name)


(***************************************************************************)
(* Profiles.  The default profile keeps config.json and github_token.json  *)
(* in the base directory, a named profile in the directory of its name     *)
(* under it.  `cx.files` gives the two files of each directory,            *)
(* `cx.stored` the last token saved through each profile argument.         *)
(***************************************************************************)
BaseDir == <<"~">>
ProfileList == << <<"a">>, <<"7">>, <<>>, <<".", ".">> >>
ProfileNames == {ProfileList[i] : i \in 1..Len(ProfileList)}
ProfileArgs == {NoneV} \cup {Some(name) : name \in ProfileNames}

validate_profile_name(name) ==
  IF name = <<>> THEN Err("Profile name cannot be empty")
  ELSE IF ~AllNameChars(name) THEN Err("Profile name contains invalid characters")
  ELSE Ok("valid")

\* get_config_dir that gives every profile the base directory.
get_config_dir_base(profile) ==
  IF profile.some /\ ~validate_profile_name(profile.val).ok
  THEN validate_profile_name(profile.val)
  ELSE Ok(BaseDir)

get_config_dir(profile) ==
  IF profile.some
  THEN IF ~validate_profile_name(profile.val).ok
       THEN validate_profile_name(profile.val)
       ELSE Ok(BaseDir \o <<"/">> \o profile.val)
  ELSE Ok(BaseDir)

Profiles == {profile \in ProfileArgs : get_config_dir(profile).ok}
ConfigDirs == {get_config_dir(profile).val : profile \in Profiles}
\* The LMK generated in a call for a profile: fresh random bytes, so the
\* LMKs of two profiles differ.  No profile loses its LMK record here.
ProfileLmk(profile) ==
  IF ~profile.some THEN VaultLmk(0)
  ELSE VaultLmk(CHOOSE i \in 1..Len(ProfileList) : ProfileList[i] = profile.val)
NoFiles == [config |-> NoneV, token |-> NoneV]
NoProfileCall ==
  [fn |-> "none", profile |-> NoneV, password |-> "", arg |-> "", res |-> Ok("")]

ProfilesInit ==
  /\ cx = [stage |-> "profiles", files |-> [dir \in ConfigDirs |-> NoFiles],
           call |-> NoProfileCall,
           stored |-> [profile \in Profiles |-> NoneV]]
  /\ config_file = NoneV
  /\ token_file = NoneV
  /\ github = NoRepository
  /\ rp = RpIdle
  /\ last = NoCommand

\* save_token_with_profile(profile, token, password)
PfSaveToken ==
  /\ cx.stage = "profiles"
  /\ \E profile \in ProfileArgs, token \in VaultTokens, password \in Passwords,
        r1 \in SysRnd, r2 \in SysRnd :
       LET call(res) ==
             [fn |-> "save_token", profile |-> profile, password |-> password,
              arg |-> token, res |-> res]
           saved(dir, out) ==
             cx' = [cx EXCEPT
                      !.files[dir] = [config |-> out.file, token |-> out.tok],
                      !.call = call(out.res),
                      !.stored[profile] =
                         IF out.res.ok
                         THEN Some([token |-> token, password |-> password])
                         ELSE @]
           in(dir) ==
             IF ~dir.ok THEN cx' = [cx EXCEPT !.call = call(dir)]
             ELSE saved(dir.val,
                        save_token_with_profile(cx.files[dir.val].config,
                                                cx.files[dir.val].token, token, password,
                                                ProfileLmk(profile), r1, r2))
       IN in(get_config_dir(profile))
  /\ UNCHANGED sysvars

\* get_saved_token_with_profile(profile, password)
PfLoadToken ==
  /\ cx.stage = "profiles"
  /\ \E profile \in ProfileArgs, password \in Passwords, r \in SysRnd :
       LET call(res) ==
             [fn |-> "load_token", profile |-> profile, password |-> password,
              arg |-> "", res |-> res]
           loaded(dir, out) ==
             cx' = [cx EXCEPT
                      !.files[dir].config = out.file,
                      !.call = call(out.res)]
           in(dir) ==
             IF ~dir.ok THEN cx' = [cx EXCEPT !.call = call(dir)]
             ELSE loaded(dir.val,
                         get_saved_token_with_profile(cx.files[dir.val].config,
                                                      cx.files[dir.val].token, password,
                                                      ProfileLmk(profile), r))
       IN in(get_config_dir(profile))
  /\ UNCHANGED sysvars

ProfilesNext == PfSaveToken \/ PfLoadToken

SpecProfiles == ProfilesInit /\ [][ProfilesNext]_vars

\* What LoadToken would return for a profile and a password.
LoadToken(files, profile, password) ==
  get_saved_token_with_profile(files[get_config_dir(profile).val].config,
                               files[get_config_dir(profile).val].token,
                               password, "lmk-new", [salt |-> 1, nonce |-> 1]).res

\* C28: storing a token for a named profile changes what LoadToken returns
\* for no other profile and not for the default profile, whatever the
\* password; and LoadToken with the password of a profile's last store
\* returns that profile's own token and fails for a profile, or the default,
\* that no token was stored for.
C28_ProfilesIsolated ==
  [][/\ (cx'.call.fn = "save_token" /\ cx'.call.profile.some) =>
          \A other \in Profiles \ {cx'.call.profile} : \A password \in Passwords :
            LoadToken(cx'.files, other, password) = LoadToken(cx.files, other, password)
     /\ (cx'.call.fn = "load_token" /\ cx'.call.profile \in Profiles) =>
          IF ~cx.stored[cx'.call.profile].some THEN ~cx'.call.res.ok
          ELSE cx'.call.password = cx.stored[cx'.call.profile].val.password =>
                 cx'.call.res = Ok(cx.stored[cx'.call.profile].val.token)]_vars

\* Tokens were stored for the two named profiles only and LoadToken failed
\* for the default profile.
C28_Witness ==
  /\ cx.stage = "profiles"
  /\ cx.call.fn = "load_token"
  /\ cx.call.profile = NoneV
  /\ ~cx.call.res.ok
  /\ ~cx.stored[NoneV].some
  /\ \A profile \in Profiles \ {NoneV} :
       /\ cx.stored[profile].some
       /\ LoadToken(cx.files, profile, cx.stored[profile].val.password)
            = Ok(cx.stored[profile].val.token)
  /\ \E p1 \in Profiles, p2 \in Profiles :
       /\ cx.stored[p1].some /\ cx.stored[p2].some
       /\ cx.stored[p1].val.token # cx.stored[p2].val.token


(***************************************************************************)
(* The commands on secrets and the remote master key.                      *)
(***************************************************************************)
SecretCommands == {"store", "get", "delete"}
KeysKept == \A path \in KeyPaths : github'.files[path] = github.files[path]

\* C26: a store, get or delete run with a password that does not unwrap the
\* master key held by the repository fails, sends no request for a path
\* under keys/ and leaves every file under keys/ as it was.
C26_PasswordCheckedFirst ==
  [][(/\ rp.pc = "idle" /\ rp'.pc = "idle"
      /\ last'.cmd \in SecretCommands
      /\ MkStatus(github, last'.pw) = "wrong") =>
       /\ ~last'.ok
       /\ last'.boot.some => ~last'.boot.val.keys
       /\ KeysKept]_vars

\* A command on a secret reached the master key with a password that does
\* not unwrap it, in a repository that holds a secret.
C26_Witness ==
  /\ last.cmd \in SecretCommands
  /\ last.boot.some
  /\ last.boot.val.pre = "wrong"
  /\ last.err = IncorrectMasterPassword
  /\ \E path \in KeyPaths : github.files[path].some


(***************************************************************************)
(* save_blob: the read of the sha and the PUT that follows it.             *)
(***************************************************************************)
\* The file at a path as the first `upto` commits left it.
FileAt(path, upto) ==
  LET at(touching) == IF touching = <<>> THEN NoneV ELSE Log[touching[1]].file
  IN at(CommitsOf(Log, path, upto))
\* The clients that are in save_blob after its read, or were last in it.
Saving == {c \in Clients : cx.clients[c].op = "save"}
ReadFailed(k) == k.net.site = "blob_sha"

\* C29: the PUT of save_blob names the sha that the path had when save_blob
\* read it, if the path existed then, and names no sha only if the path did
\* not exist then.
C29_PutNamesCurrentSha ==
  cx.stage = "store" =>
    \A c \in Saving :
      LET names(k, file) ==
            k.sha = IF file.some THEN Some(file.val.sha) ELSE NoneV
      IN names(cx.clients[c], FileAt(KeyPath(cx.clients[c].key), cx.clients[c].epoch))

\* The same with the read of the sha answered.
PutNamesShaRead ==
  cx.stage = "store" =>
    \A c \in Saving :
      LET names(k, file) ==
            ~ReadFailed(k) =>
              k.sha = IF file.some THEN Some(file.val.sha) ELSE NoneV
      IN names(cx.clients[c], FileAt(KeyPath(cx.clients[c].key), cx.clients[c].epoch))

\* C30: when the read of the sha in save_blob fails in transport or is
\* answered with a status other than 404, save_blob returns the error of the
\* read and sends no PUT.
C30_ReadFailureReturned ==
  cx.stage = "store" =>
    \A c \in Saving :
      (cx.clients[c].pc = "idle" /\ ReadFailed(cx.clients[c])) =>
        /\ ~cx.clients[c].res.ok
        /\ cx.clients[c].res.err \in {"transport", "Failed to fetch key"}
        /\ cx.clients[c].sent = 0

(***************************************************************************)
(* The local JSON files: a profile's config.json and global.json, each     *)
(* absent, malformed or well formed.  `cx.global` is global.json and       *)
(* `cx.call` the last call, whether it returned Ok, and whether the file   *)
(* it works on was malformed when it was made.                             *)
(***************************************************************************)
DefaultGlobalConfig == [active_profile |-> NoneV]
\* GlobalConfig::load
GlobalConfig_load(file) ==
  IF ~file.some THEN DefaultGlobalConfig
  ELSE IF ~FromJsonStr(file.val).ok THEN DefaultGlobalConfig
  ELSE FromJsonStr(file.val).val
\* GlobalConfig::set_active_profile
set_active_profile(file, profile) ==
  IF profile.some /\ ~validate_profile_name(profile.val).ok
  THEN [res |-> validate_profile_name(profile.val), file |-> file]
  ELSE [res |-> Ok("done"),
        file |-> Some([GlobalConfig_load(file) EXCEPT !.active_profile = profile])]

ConfigFiles ==
  {NoneV, Some(MalformedJson)} \cup
  {set_repo_name_with_profile(NoneV, name, password, r).file :
     name \in VaultRepos, password \in Passwords, r \in SysRnd}
GlobalFiles ==
  {NoneV, Some(MalformedJson)} \cup
  {Some([active_profile |-> profile]) : profile \in Profiles}

ConfigInit ==
  /\ config_file \in ConfigFiles
  /\ cx \in [stage : {"config"}, global : GlobalFiles,
             call : {[fn |-> "none", ok |-> TRUE, malformed |-> FALSE]}]
  /\ token_file = NoneV
  /\ github = NoRepository
  /\ rp = RpIdle
  /\ last = NoCommand

Called(fn, ok, file) ==
  [fn |-> fn, ok |-> ok, malformed |-> file = Some(MalformedJson)]

\* Config::set_repo_name_with_profile(profile, name, password)
CfSetRepo ==
  /\ cx.stage = "config"
  /\ \E name \in VaultRepos, password \in Passwords, r \in SysRnd :
       LET set(out) ==
             /\ config_file' = out.file
             /\ cx' = [cx EXCEPT !.call = Called("set_repo", out.res.ok, config_file)]
       IN set(set_repo_name_with_profile(config_file, name, password, r))
  /\ UNCHANGED <<token_file, github, rp, last>>

\* Config::get_repo_name_with_profile(profile, password)
CfGetRepo ==
  /\ cx.stage = "config"
  /\ \E password \in Passwords :
       cx' = [cx EXCEPT !.call =
                Called("get_repo", get_repo_name_with_profile(config_file, password).ok,
                       config_file)]
  /\ UNCHANGED sysvars

\* GlobalConfig::set_active_profile(profile)
CfSetActive ==
  /\ cx.stage = "config"
  /\ \E profile \in ProfileArgs :
       LET set(out) ==
             cx' = [cx EXCEPT !.global = out.file,
                              !.call = Called("set_active", out.res.ok, cx.global)]
       IN set(set_active_profile(cx.global, profile))
  /\ UNCHANGED sysvars

\* GlobalConfig::get_active_profile()
CfGetActive ==
  /\ cx.stage = "config"
  /\ cx' = [cx EXCEPT !.call = Called("get_active", TRUE, cx.global)]
  /\ UNCHANGED sysvars

ConfigNext == CfSetRepo \/ CfGetRepo \/ CfSetActive \/ CfGetActive

SpecConfig == ConfigInit /\ [][ConfigNext]_vars

\* C31: a call that loads a config.json or global.json that exists and does
\* not parse returns an error, and leaves the file as it is: no save writes
\* a configuration derived from the defaults over it.
C31_MalformedJsonReported ==
  [][/\ (cx'.call.fn \in {"set_repo", "get_repo"}
           /\ config_file = Some(MalformedJson)) =>
          ~cx'.call.ok /\ config_file' = config_file
     /\ (cx'.call.fn \in {"set_active", "get_active"}
           /\ cx.global = Some(MalformedJson)) =>
          ~cx'.call.ok /\ cx'.global = cx.global]_vars

(***************************************************************************)
(* The init command.                                                       *)
(***************************************************************************)
RepoNameRecord(file) == load_with_profile(file).encrypted_repo_name

\* C32: init_repo sends the create request exactly when the existence check
\* answers 404 and never when the repository exists; when the check fails in
\* transport or answers another status, or when the create request fails,
\* it returns an error and no repository is created.
C32_InitRepoCreates ==
  (last.cmd = "init" /\ last.val.some) =>
    LET init(v) ==
          /\ v.creates = 1 <=> v.check = 404
          /\ v.creates = 0 <=> v.check # 404
          /\ v.existed => v.creates = 0
          /\ v.check \notin {200, 404} => ~v.ok /\ v.exists = v.existed
          /\ (v.creates = 1 /\ ~v.ok) => v.exists = v.existed
          /\ ~v.ok => ~last.ok
          /\ v.ok => v.exists
    IN init(last.val.val)

\* The check answered 404 and the repository was created.
C32_Witness ==
  /\ last.cmd = "init" /\ last.val.some
  /\ ~last.val.val.existed /\ last.val.val.creates = 1
  /\ last.val.val.ok /\ last.val.val.exists

\* C39: an init run with a password that does not unwrap the master key
\* held by the repository fails and leaves the profile's repository name as
\* it was; init saves the repository name only when it succeeds, and then
\* the repository holds no master key or one that the password unwraps.
C39_InitVerifiesPassword ==
  [][(rp.pc = "idle" /\ rp'.pc = "idle" /\ last'.cmd = "init") =>
       /\ MkStatus(github, last'.pw) = "wrong" =>
            /\ ~last'.ok
            /\ RepoNameRecord(config_file') = RepoNameRecord(config_file)
       /\ RepoNameRecord(config_file') # RepoNameRecord(config_file) =>
            /\ last'.ok
            /\ MkStatus(github', last'.pw) \in {"absent", "opens"}]_vars

\* An init was refused for its password.
C39_Witness ==
  /\ last.cmd = "init"
  /\ last.err = "The provided password is incorrect for this repository."
  /\ MkStatus(github, last.pw) = "wrong"


(***************************************************************************)
(* The device flow of auth.rs.  Times are seconds.  `cx.interval` is the   *)
(* variable `interval` of poll_for_token, `cx.waited` the sum of the       *)
(* sleeps so far, `cx.polls` the number of poll requests sent and          *)
(* `cx.answer` the kind of the last answer.                                *)
(***************************************************************************)
MaxWaited == 40
DeviceIntervals == {5, 10}
DeviceExpiries == {15, 30}
\* The `interval` field of an error answer; 0 is also what serde gives when
\* the answer has no such field.
ErrorIntervals == {0, 10, 15}
SlowDownStep == 5
IntervalBuffer == 1
AnswerKinds ==
  {"success", "authorization_pending", "slow_down", "expired_token",
   "access_denied", "unsupported_grant_type", "transport", "unparsable"}
PollAnswers == [kind : AnswerKinds, interval : ErrorIntervals]
Continues == {"authorization_pending", "slow_down"}

\* The match of poll_for_token that goes on polling after access_denied.
poll_answer_denied_continues(interval, answer) ==
  IF answer.kind = "transport" THEN [interval |-> interval, ret |-> Some(Err("transport"))]
  ELSE IF answer.kind = "unparsable" THEN [interval |-> interval, ret |-> Some(Err("json"))]
  ELSE IF answer.kind = "success" THEN [interval |-> interval, ret |-> Some(Ok("gho_1"))]
  ELSE IF answer.kind = "authorization_pending" THEN [interval |-> interval, ret |-> NoneV]
  ELSE IF answer.kind = "slow_down"
  THEN [interval |-> answer.interval + SlowDownStep, ret |-> NoneV]
  ELSE IF answer.kind = "expired_token"
  THEN [interval |-> interval, ret |-> Some(Err("Device code expired. Please try again."))]
  ELSE IF answer.kind = "access_denied" THEN [interval |-> interval, ret |-> NoneV]
  ELSE [interval |-> interval, ret |-> Some(Err("Authentication error"))]

\* One answer of the poll request: the new interval, and what the loop
\* returns if it returns.
poll_answer(interval, answer) ==
  IF answer.kind = "transport" THEN [interval |-> interval, ret |-> Some(Err("transport"))]
  ELSE IF answer.kind = "unparsable" THEN [interval |-> interval, ret |-> Some(Err("json"))]
  ELSE IF answer.kind = "success" THEN [interval |-> interval, ret |-> Some(Ok("gho_1"))]
  ELSE IF answer.kind = "authorization_pending" THEN [interval |-> interval, ret |-> NoneV]
  ELSE IF answer.kind = "slow_down"
  THEN [interval |-> answer.interval + SlowDownStep, ret |-> NoneV]
  ELSE IF answer.kind = "expired_token"
  THEN [interval |-> interval, ret |-> Some(Err("Device code expired. Please try again."))]
  ELSE IF answer.kind = "access_denied"
  THEN [interval |-> interval, ret |-> Some(Err("Access denied by user."))]
  ELSE [interval |-> interval, ret |-> Some(Err("Authentication error"))]

DeviceInit ==
  /\ cx = [stage |-> "device", pc |-> "idle", interval |-> 0, expires_in |-> 0,
           waited |-> 0, polls |-> 0, answer |-> "none", res |-> Ok("none")]
  /\ config_file = NoneV
  /\ token_file = NoneV
  /\ github = NoRepository
  /\ rp = RpIdle
  /\ last = NoCommand

\* authenticate up to the call of poll_for_token, and the first line of
\* poll_for_token.
DfBegin ==
  /\ cx.stage = "device" /\ cx.pc = "idle"
  /\ \/ \E interval \in DeviceIntervals, expires_in \in DeviceExpiries :
          cx' = [cx EXCEPT !.pc = "polling", !.interval = interval + IntervalBuffer,
                           !.expires_in = expires_in]
     \/ \E err \in {"transport", "GitHub API Error", "Failed to parse response"} :
          cx' = [cx EXCEPT !.pc = "done", !.res = Err(err)]
  /\ UNCHANGED sysvars

\* One turn of the loop: the sleep, the request and the match on its answer.
DfPoll ==
  /\ cx.stage = "device" /\ cx.pc = "polling"
  /\ cx.waited + cx.interval <= MaxWaited
  /\ \E answer \in PollAnswers :
       LET turn(out) ==
             cx' = [cx EXCEPT !.waited = @ + cx.interval, !.polls = @ + 1,
                              !.answer = answer.kind, !.interval = out.interval,
                              !.pc = IF out.ret.some THEN "done" ELSE "polling",
                              !.res = IF out.ret.some THEN out.ret.val ELSE @]
       IN turn(poll_answer(cx.interval, answer))
  /\ UNCHANGED sysvars

DeviceNext == DfBegin \/ DfPoll

SpecDevice == DeviceInit /\ [][DeviceNext]_vars

\* C33: an authorization_pending answer leaves the interval as it was, a
\* slow_down answer makes it strictly larger, and no answer makes it smaller.
C33_IntervalNeverDecreases ==
  [][cx'.polls = cx.polls + 1 =>
       /\ cx'.answer = "authorization_pending" => cx'.interval = cx.interval
       /\ cx'.answer = "slow_down" => cx'.interval > cx.interval
       /\ cx'.interval >= cx.interval]_vars

\* C34: once the time waited has reached expires_in the loop has stopped,
\* with a failure unless the last answer was the token.
C34_BoundedByExpiry ==
  (cx.stage = "device" /\ cx.pc # "idle" /\ cx.waited >= cx.expires_in) =>
    /\ cx.pc = "done"
    /\ cx.answer # "success" => ~cx.res.ok

\* C35: the loop returns the token after a success answer and a failure
\* after expired_token, access_denied, any other error of the backend, a
\* transport error or an answer that does not parse; it goes on polling
\* only after authorization_pending or slow_down; and once it has returned
\* it sends no poll request.
C35_TerminalOutcomes ==
  [][/\ cx'.polls = cx.polls + 1 =>
          /\ cx.pc = "polling"
          /\ cx'.pc = "polling" <=> cx'.answer \in Continues
          /\ cx'.pc = "done" <=> cx'.answer \notin Continues
          /\ cx'.answer = "success" => cx'.res = Ok("gho_1")
          /\ (cx'.pc = "done" /\ cx'.answer # "success") => ~cx'.res.ok
     /\ cx.pc = "done" => cx'.polls = cx.polls]_vars

\* The loop returned a failure after access_denied, having polled before.
C35_Witness ==
  /\ cx.stage = "device"
  /\ cx.pc = "done" /\ cx.answer = "access_denied"
  /\ cx.polls >= 2 /\ ~cx.res.ok


(***************************************************************************)
(* The local records after a rotation.                                     *)
(***************************************************************************)
\* C36: after a rotation that reported success on a profile whose
\* repository name opened under the old password, the LMK record and the
\* repository name record open under the new password, and so does the
\* token when one is saved.
C36_NewPasswordOpensLocalRecords ==
  (RotationEnded /\ last.ok /\ get_repo_name_with_profile(config_file, rp.old).ok) =>
     /\ LmkOpens(config_file, rp.new)
     /\ get_repo_name_with_profile(config_file, rp.new).ok
     /\ token_file.some =>
          get_saved_token_with_profile(config_file, token_file, rp.new, "lmk-A",
                                       [salt |-> 1, nonce |-> 1]).res.ok


(***************************************************************************)
(* The store and delete commands of two clients, step by step.  A command  *)
(* is cut at its requests: the fetch of the master key file, the read of   *)
(* its sha and its PUT when the fetch found none, the existence check with *)
(* its prompt, the read of the sha inside save_blob or delete_blob, and    *)
(* the write.  Of a client's command the record keeps the sha the          *)
(* existence check showed (`seen`), the sha the file had when the write    *)
(* arrived (`met`); `cx.persisted` is the set of generated master keys     *)
(* whose PUT succeeded.                                                    *)
(***************************************************************************)
MaxCommands == 3
RacePassword == "password-1"
RaceKey == "db-pass"
RaceIdle ==
  [pc |-> "idle", cmd |-> "none", master_key |-> "", mk_sha |-> NoneV,
   seen |-> NoneV, sha |-> NoneV, found |-> Ok(NoneV), data |-> NoneV,
   met |-> NoneV, res |-> Ok("none"), sent |-> 0]
\* generate_master_key, one outcome for each client.
GeneratedKey(c) == IF c = "c1" THEN "mk-A" ELSE "mk-B"
ShaOf(file) == IF file.some THEN Some(file.val.sha) ELSE NoneV

\* save_master_key_blob, lines 256-268: the sha of the file as it is now.
save_master_key_blob_sha(gh, net) ==
  LET read(res) == IF IsSuccess(res.status) THEN Some(res.sha) ELSE NoneV
  IN read(IF Status500(net, "mk_sha") THEN [status |-> 500]
          ELSE GhGetContents(gh, MasterKeyPath))

\* save_master_key_blob, lines 270-297: the PUT with the sha that was read.
save_master_key_blob_put(gh, data, sha, net) ==
  IF Transport(net, "mk_put")
  THEN [res |-> Err("transport"), gh |-> gh, puts |-> 1]
  ELSE LET sent(put) ==
             IF ~IsSuccess(put.status)
             THEN [res |-> Err("Failed to save master key"), gh |-> gh, puts |-> 1]
             ELSE [res |-> Ok("done"), gh |-> put.gh, puts |-> 1]
       IN sent(IF Status500(net, "mk_put") THEN [status |-> 500, gh |-> gh]
               ELSE GhPutContents(gh, MasterKeyPath, B64Encode(data), sha,
                                  "Initialize master key"))

RaceInit ==
  /\ cx = [stage |-> "race", clients |-> [c \in Clients |-> RaceIdle],
           ops |-> 0, drawn |-> 0, persisted |-> {}]
  /\ config_file = NoneV
  /\ token_file = NoneV
  /\ github = init_repo([NoRepository EXCEPT !.commits = Some(<<>>)], NoFailure).gh
  /\ rp = RpIdle
  /\ last = NoCommand

\* The command up to the answer of get_master_key_blob: with a master key
\* file the key is unwrapped, without one a key is generated.
RcStart(c) ==
  /\ cx.stage = "race" /\ cx.clients[c].pc = "idle" /\ cx.ops < MaxCommands
  /\ UNCHANGED sysvars
  /\ \E cmd \in {"store", "delete"} :
       LET begun(fetched) ==
             IF ~fetched.ok
             THEN cx' = [cx EXCEPT !.ops = @ + 1,
                           !.clients[c] = [RaceIdle EXCEPT !.cmd = cmd, !.res = fetched]]
             ELSE IF fetched.val.some
             THEN LET opened(decrypted) ==
                        IF ~decrypted.ok
                        THEN cx' = [cx EXCEPT !.ops = @ + 1,
                                      !.clients[c] =
                                        [RaceIdle EXCEPT !.cmd = cmd,
                                           !.res = Err(IncorrectMasterPassword)]]
                        ELSE cx' = [cx EXCEPT !.ops = @ + 1,
                                      !.clients[c] =
                                        [RaceIdle EXCEPT !.cmd = cmd, !.pc = "check",
                                           !.master_key = FromUtf8(decrypted.val).val]]
                  IN opened(decrypt(FromJsonSlice(fetched.val.val).val, RacePassword))
             ELSE cx' = [cx EXCEPT !.ops = @ + 1,
                           !.clients[c] =
                             [RaceIdle EXCEPT !.cmd = cmd, !.pc = "mk_sha",
                                              !.master_key = GeneratedKey(c)]]
       IN begun(get_master_key_blob(github, NoFailure))

\* save_master_key_blob up to the answer of its GET.
RcMkSha(c) ==
  /\ cx.stage = "race" /\ cx.clients[c].pc = "mk_sha"
  /\ UNCHANGED sysvars
  /\ cx' = [cx EXCEPT !.clients[c].pc = "mk_put",
                      !.clients[c].mk_sha = save_master_key_blob_sha(github, NoFailure)]

\* save_master_key_blob from the PUT on, and the return of
\* get_or_init_master_key.
RcMkPut(c) ==
  /\ cx.stage = "race" /\ cx.clients[c].pc = "mk_put"
  /\ UNCHANGED <<config_file, token_file, rp, last>>
  /\ LET done(k, saved) ==
           /\ github' = saved.gh
           /\ cx' = [cx EXCEPT
                       !.drawn = OsRngNext(@),
                       !.persisted = IF saved.res.ok THEN @ \cup {k.master_key} ELSE @,
                       !.clients[c] =
                         IF saved.res.ok THEN [k EXCEPT !.pc = "check"]
                         ELSE [k EXCEPT !.pc = "idle", !.res = saved.res]]
         wrap(k, r) ==
           done(k, save_master_key_blob_put(
                     github,
                     ToJsonVec(encrypt(AsBytes(k.master_key), RacePassword, r).val),
                     k.mk_sha, NoFailure))
     IN wrap(cx.clients[c], [salt |-> OsRngNext(cx.drawn), nonce |-> OsRngNext(cx.drawn)])

\* The existence check of the command and the prompt that follows it.
RcCheck(c) ==
  /\ cx.stage = "race" /\ cx.clients[c].pc = "check"
  /\ UNCHANGED sysvars
  /\ \E answer \in BOOLEAN :
       LET checked(k, found) ==
             IF k.cmd = "store"
             THEN IF found.ok /\ found.val.some /\ ~answer
                  THEN cx' = [cx EXCEPT !.clients[c] =
                                [k EXCEPT !.pc = "idle", !.res = Ok("cancelled"),
                                          !.seen = Some(found.val.val.sha)]]
                  ELSE cx' = [cx EXCEPT !.clients[c] =
                                [k EXCEPT !.pc = "sha",
                                          !.seen = IF found.ok /\ found.val.some
                                                   THEN Some(found.val.val.sha)
                                                   ELSE NoneV]]
             ELSE IF ~found.ok
             THEN cx' = [cx EXCEPT !.clients[c] = [k EXCEPT !.pc = "idle", !.res = found]]
             ELSE IF ~found.val.some
             THEN cx' = [cx EXCEPT !.clients[c] =
                           [k EXCEPT !.pc = "idle", !.res = Err("not found")]]
             ELSE IF ~answer
             THEN cx' = [cx EXCEPT !.clients[c] =
                           [k EXCEPT !.pc = "idle", !.res = Ok("cancelled"),
                                     !.seen = Some(found.val.val.sha)]]
             ELSE cx' = [cx EXCEPT !.clients[c] =
                           [k EXCEPT !.pc = "sha", !.seen = Some(found.val.val.sha)]]
       IN checked(cx.clients[c], get_blob(github, RaceKey, NoFailure, "blob_get"))

\* save_blob or delete_blob up to the read of the sha.
RcRead(c) ==
  /\ cx.stage = "race" /\ cx.clients[c].pc = "sha"
  /\ UNCHANGED sysvars
  /\ LET read(k, r) ==
           IF k.cmd = "store"
           THEN cx' = [cx EXCEPT
                         !.drawn = OsRngNext(@),
                         !.clients[c] =
                           [k EXCEPT !.pc = "write",
                              !.data = Some(ToJsonVec(
                                         encrypt(AsBytes("v1"), k.master_key, r).val)),
                              !.sha = save_blob_sha(github, RaceKey, NoFailure)]]
           ELSE cx' = [cx EXCEPT
                         !.clients[c] =
                           [k EXCEPT !.pc = "write",
                              !.found = get_blob(github, RaceKey, NoFailure,
                                                 "blob_del_sha")]]
     IN read(cx.clients[c], [salt |-> OsRngNext(cx.drawn), nonce |-> OsRngNext(cx.drawn)])

\* save_blob from the PUT on, or delete_blob after the read.
RcWrite(c) ==
  /\ cx.stage = "race" /\ cx.clients[c].pc = "write"
  /\ UNCHANGED <<config_file, token_file, rp, last>>
  /\ LET done(k, out, sent) ==
           /\ github' = out.gh
           /\ cx' = [cx EXCEPT !.clients[c] =
                       [k EXCEPT !.pc = "idle", !.res = out.res, !.sent = sent,
                                 !.met = ShaOf(github.files[KeyPath(RaceKey)])]]
         stored(k, out) == done(k, out, out.puts)
         deleted(k, out) == done(k, out, out.deletes)
     IN IF cx.clients[c].cmd = "store"
        THEN stored(cx.clients[c],
                    save_blob_put(github, RaceKey, cx.clients[c].data.val,
                                  cx.clients[c].sha, NoFailure))
        ELSE deleted(cx.clients[c],
                     delete_blob_send(github, RaceKey, cx.clients[c].found, NoFailure))

RaceNext ==
  \E c \in Clients :
    \/ RcStart(c)
    \/ RcMkSha(c)
    \/ RcMkPut(c)
    \/ RcCheck(c)
    \/ RcRead(c)
    \/ RcWrite(c)

SpecRace == RaceInit /\ [][RaceNext]_vars

RemainingDek ==
  FromUtf8(decrypt(StoredBlob(github, MasterKeyPath), RacePassword).val).val

\* C37: of the master keys that interleaved first commands generate at most
\* one is ever written to the store, and every secret in the store decrypts
\* under the master key that the master key file holds.
C37_OneDekPersisted ==
  cx.stage = "race" =>
    /\ Cardinality(cx.persisted) <= 1
    /\ \A path \in KeyPaths :
         (github.files[path].some /\ HasMasterKey(github)) =>
            decrypt(StoredBlob(github, path), RemainingDek).ok

\* C38: a store or delete command whose write succeeded wrote over, or
\* deleted, the version of the file that its existence check had shown:
\* a file changed in between makes the write fail.
C38_WritesVersionAsked ==
  cx.stage = "race" =>
    \A c \in Clients :
      LET wrote(k) ==
            (k.pc = "idle" /\ k.sent = 1 /\ k.res.ok) => k.met = k.seen
      IN wrote(cx.clients[c])

====
